---------------------------- MODULE Spec2Model ----------------------------
(***************************************************************************)
(* Heimdall: a human-supervised task agent.                                *)
(*                                                                         *)
(* Two state machines are modelled, each also under narrower environments, *)
(* and two components that main.py does not use.                           *)
(*                                                                         *)
(*   Spec        the AgentLoop of atomic_heimdall/main.py: operator turns, *)
(*               the step-bounded inner loop, the planner call, the tool   *)
(*               dispatch and the conversation memory.  A tool's run is    *)
(*               one step of the loop whose outcome (a result or an        *)
(*               exception) is what the tool machine below can produce.    *)
(*   GateSpec    the first turn of the AgentLoop with an operator who      *)
(*               rejects every command and every write.                    *)
(*   PromptSpec  the AgentLoop with what the operator types or interrupts  *)
(*               at the main prompt recorded, and no tool run.             *)
(*   FaultSpec   PromptSpec with exceptions that reach the outer handler   *)
(*               of main().                                                *)
(*   BudgetSpec  the AgentLoop with a planner and tools that always        *)
(*               return, under weak fairness of main()'s own steps.        *)
(*                                                                         *)
(*   ToolSpec    the three tools registered by main.py, each run modelled  *)
(*               from its first line to its return, with the operator's    *)
(*               answers, the filesystem, the spawned process and the      *)
(*               search provider as the environment.                       *)
(*   ReadSpec    the file tool with a caller that remembers what a read    *)
(*               returned and what a write put down, on a disk that works. *)
(*   ApprovalSpec  the console tool and the file tool with an operator who *)
(*               does not answer with invalid input or edits for ever.     *)
(*                                                                         *)
(*   SearchSpec  DuckDuckGoSearchTool.run (tools/websearch_tool.py).       *)
(*   SmolSpec    the FileManager of smol_heimdall/tools/file_manager.py,   *)
(*               on the filesystem model of the atomic file tool.          *)
(*                                                                         *)
(* Text that the code inspects character by character (operator input,     *)
(* approval answers, commands, paths, file contents) is a sequence of      *)
(* one-character strings.  Text that the code only passes on is a          *)
(* sequence of tokens.  Either way a text is a sequence of strings.        *)
(*                                                                         *)
(* heimdall_agent.run is inherited from the atomic_agents library, which   *)
(* is not part of this repository: the planner is an opaque call that      *)
(* returns a decision or raises.  Whatever the library itself records is   *)
(* outside the model; memory holds the entries main.py appends.            *)
(***************************************************************************)
EXTENDS Integers, Sequences, FiniteSets, TLC

VARIABLES
    \* ---- AgentLoop (atomic_heimdall/main.py) ----
    pc,                    \* where main() is blocked
    memory,                \* heimdall_agent.memory, as appended by main()
    current_task,          \* main.py:165
    last_tool_result_str,  \* main.py:166
    step_count,            \* main.py:167
    agent_input,           \* main.py:176, the input of the latest planner call
    agent_output,          \* main.py:184, the latest decision
    turn,                  \* operator turns started so far
    planner_log,           \* every agent_input handed to the planner, in order
    tool_runs,             \* tool_instance.run calls of the current turn
    shown,                 \* responses printed to the operator (main.py:257)
    unknown_log,           \* positions in planner_log at which an unknown tool was named
    response_dropped,      \* the decision handled last took the tool path and carried a response
    \* ---- tools (atomic_heimdall/tools) ----
    tpc,                   \* where the running tool is blocked
    params,                \* the input object of the running tool
    command,               \* console tool: local variable command
    presented,             \* console tool: command last printed to the operator
    answered,              \* the operator's latest raw answer to an approval prompt
    spawned,               \* argument vectors handed to subprocess.run in this run
    ret,                   \* what the latest run returned or raised
    fs,                    \* the filesystem: absolute path -> node
    fs_at_call,            \* the filesystem when the current run began
    fs_accessed,           \* the current run has called into the filesystem
    prompted,              \* an approval prompt was shown in the current run
    last_edit,             \* console tool: the latest replacement command accepted
    happened,              \* what the process or the search provider did in this run
    prompt_interrupted,    \* EOFError/KeyboardInterrupt was raised at a prompt of this run
    writes,                \* write and append requests so far
    \* ---- the operator at the main prompt ----
    operator_event,        \* what came last at the outer loop: a typed line, an
                           \* interrupt, or another exception
    \* ---- the caller of the file tool ----
    prev_read,             \* the latest read whose file no later request asked to change
    prev_write,            \* the latest performed write or append, no later one asked for
    \* ---- DuckDuckGoSearchTool (atomic_heimdall/tools/websearch_tool.py) ----
    spc,                   \* where run is
    all_results,           \* run: the raw results collected over the queries
    search_output          \* run: the results of the returned output object

loopVars == <<pc, memory, current_task, last_tool_result_str, step_count,
              agent_input, agent_output, turn, planner_log, tool_runs, shown,
              unknown_log, response_dropped>>

toolVars == <<tpc, params, command, presented, answered, spawned, ret, fs,
              fs_at_call, fs_accessed, prompted, last_edit, happened, prompt_interrupted,
              writes>>

\* What is recorded about the environment, for the properties only
observed == <<operator_event, prev_read, prev_write>>

\* The search tool that main.py does not register, run on its own
searchVars == <<spc, all_results, search_output>>

vars == <<loopVars, toolVars, observed, searchVars>>

---------------------------------------------------------------------------
(* Bounds of the model                                                     *)

MaxTurns == 2

MaxPathComps == 2

MaxWrites == 1

\* Raw results one search run collects
MaxResults == 3

\* Exceptions that reach the outer handler of main() in one session
MaxFaults == 2

---------------------------------------------------------------------------
(* Text                                                                    *)

\* str.lower() on the letters the model uses
LowerChar(c) ==
    CASE c = "Y" -> "y"
      [] c = "N" -> "n"
      [] c = "E" -> "e"
      [] c = "X" -> "x"
      [] c = "Q" -> "q"
      [] OTHER -> c

Lower(s) == [i \in 1..Len(s) |-> LowerChar(s[i])]

RECURSIVE LStrip(_)
LStrip(s) == IF s # <<>> /\ Head(s) = " " THEN LStrip(Tail(s)) ELSE s

RECURSIVE RStrip(_)
RStrip(s) ==
    IF s # <<>> /\ s[Len(s)] = " " THEN RStrip(SubSeq(s, 1, Len(s) - 1)) ELSE s

\* str.strip()
Strip(s) == RStrip(LStrip(s))

\* str.startswith
StartsWith(s, p) == Len(p) <= Len(s) /\ SubSeq(s, 1, Len(p)) = p

\* Optional[...] values
None == [some |-> FALSE, val |-> <<>>]
Some(v) == [some |-> TRUE, val |-> v]

\* Python truthiness of an Optional[str]: None and "" are both false
Truthy(o) == o.some /\ o.val # <<>>

Last(s) == s[Len(s)]

---------------------------------------------------------------------------
(* Schemas (atomic_heimdall/schemas)                                       *)

\* Required fields of each tool's input schema (pydantic Field(...))
ConsoleRequired == {"command", "reason"}

FileManagerRequired == {"action", "path", "reason"}

\* The search schema declares the field query, not user_query
WebSearchRequired == {"query"}

\* A construction that accepts any dictionary
ValidatesAnything(required, dict) == TRUE

\* tool_input_schema_class(**tool_params_dict): the object, or a ValidationError
\* when a required field is missing
Validates(required, dict) == required \subseteq DOMAIN dict

\* BaseModel attribute access: a declared field is read, any other name raises
\* AttributeError
HasAttr(obj, name) == name \in DOMAIN obj

ConsoleToolOutputSchema(result, executed) ==
    [schema |-> "ConsoleToolOutputSchema", result |-> result,
     executed |-> executed]

FileManagerOutputSchema(status, content, action_performed) ==
    [schema |-> "FileManagerOutputSchema", status |-> status,
     content |-> content, action_performed |-> action_performed]

WebSearchToolOutputSchema(final_answer, success) ==
    [schema |-> "WebSearchToolOutputSchema", final_answer |-> final_answer,
     success |-> success]

BoolJson(b) == IF b THEN "true" ELSE "false"

\* tool_output.model_dump_json(): the fields in declaration order
model_dump_json(o) ==
    CASE o.schema = "ConsoleToolOutputSchema" ->
           <<"{result:">> \o o.result \o <<"executed:", BoolJson(o.executed), "}">>
      [] o.schema = "FileManagerOutputSchema" ->
           <<"{status:">> \o o.status \o <<"content:">>
             \o (IF o.content.some THEN o.content.val ELSE <<"null">>)
             \o <<"action_performed:", BoolJson(o.action_performed), "}">>
      [] OTHER ->
           <<"{final_answer:">>
             \o (IF o.final_answer.some THEN o.final_answer.val ELSE <<"null">>)
             \o <<"success:", BoolJson(o.success), "}">>

\* What a run hands back to its caller
Returned(o) == [kind |-> "returned", out |-> o, err |-> <<>>]
Raised(e) == [kind |-> "raised", out |-> <<>>, err |-> e]
NoReturn == [kind |-> "none", out |-> <<>>, err |-> <<>>]

---------------------------------------------------------------------------
(* AgentLoop: atomic_heimdall/main.py                                      *)

MAX_AUTO_STEPS == 10

\* The keys of the tools dictionary
ToolNames == {<<"HumanInTheLoopConsole">>, <<"FileManager">>, <<"WebSearchTool">>}

RequiredOf(tool_name) ==
    CASE tool_name = <<"HumanInTheLoopConsole">> -> ConsoleRequired
      [] tool_name = <<"FileManager">> -> FileManagerRequired
      [] OTHER -> WebSearchRequired

ContinuationPhrase == <<"Continue with the plan based on the last tool result.">>

\* heimdall_agent.memory.add_message(role, TextMessageSchema(text))
Message(role, text) == [role |-> role, text |-> text]

\* A memory that keeps only the entries of the turn under way: a user entry
\* starts it afresh
add_messageForgets(mem, role, text) ==
    IF role = "user" THEN <<Message(role, text)>> ELSE Append(mem, Message(role, text))

add_message(mem, role, text) == Append(mem, Message(role, text))

InternalErrorText(e) == <<"Internal Error during agent run:">> \o e

\* A record of a tool's return that leaves the serialized result out
ToolOutputTextNoResult(tool_name, result_str) ==
    <<"Tool">> \o tool_name \o <<"output:">>

ToolOutputText(tool_name, result_str) ==
    <<"Tool">> \o tool_name \o <<"output:">> \o result_str

ToolErrorText(tool_name, e) == <<"Error running tool">> \o tool_name \o <<":">> \o e

UnknownToolError(tool_name) ==
    <<"Error: Unknown tool">> \o tool_name \o <<"requested.">>

HallucinatedText(tool_name) == <<"Agent hallucinated unknown tool:">> \o tool_name

NoActionText == <<"Internal Note: Agent provided no actionable output. Ending loop.">>

MaxStepsText == <<"Reached max auto steps", ToString(MAX_AUTO_STEPS), "Waiting for user.">>

\* A loop test that lets one step too many through
LoopContinuesInclusive(sc) == sc <= MAX_AUTO_STEPS

\* while step_count < MAX_AUTO_STEPS
LoopContinues(sc) == sc < MAX_AUTO_STEPS

\* A task text that repeats the operator's input at every step
TaskForAgentAlways(task, sc) == task

\* task_for_agent
TaskForAgent(task, sc) == IF sc = 1 THEN task ELSE ContinuationPhrase

HeimdallInputSchema(task, previous) == [task |-> task, previous_tool_result |-> previous]

\* The code after the inner loop: the note, when the step bound was reached
EndOfInnerLoop(mem, sc) ==
    IF sc >= MAX_AUTO_STEPS THEN add_message(mem, "system", MaxStepsText) ELSE mem

NoDecision == [tool_to_use |-> None, tool_parameters |-> None, response_to_user |-> None,
               present |-> FALSE]

Decision(tool, parameters, response) ==
    [tool_to_use |-> tool, tool_parameters |-> parameters,
     response_to_user |-> response, present |-> TRUE]

NoInput == HeimdallInputSchema(<<>>, None)

\* The input object pydantic builds: the declared fields the dictionary gives
Construct(declared, dict) == [f \in declared \cap DOMAIN dict |-> dict[f]]

\* What the search provider can do (run_web_search_flow, or the stand-in defined
\* when its import failed)
ProviderBehaviours == {"answer", "nothing", "import_error", "exception"}

\* WebSearchToolWrapper.run
WebSearchRun(p, behaviour) ==
    IF ~HasAttr(p, "user_query")
    THEN Raised(<<"AttributeError: user_query">>)
    ELSE CASE behaviour = "answer" ->
                Returned(WebSearchToolOutputSchema(Some(<<"markup of">>  \o p.user_query), TRUE))
           [] behaviour = "nothing" ->
                Returned(WebSearchToolOutputSchema(
                    Some(<<"The web search process completed, but no answer could be synthesized">>),
                    FALSE))
           [] behaviour = "import_error" ->
                Returned(WebSearchToolOutputSchema(
                    Some(<<"Error: The web search tool is not configured correctly">>), FALSE))
           [] OTHER ->
                Returned(WebSearchToolOutputSchema(
                    Some(<<"An error occurred during the web search:">>), FALSE))

\* The console tool's result text after a process that ran to completion
ExitText(proc) ==
    <<"Exit Code:", ToString(proc.returncode)>>
      \o (IF proc.stdout # <<>> THEN <<"--- STDOUT ---">> \o proc.stdout ELSE <<>>)
      \o (IF proc.stderr # <<>> THEN <<"--- STDERR ---">> \o proc.stderr ELSE <<>>)

\* The parameter dictionaries the planner sends in the loop model
ConsoleParams == [command |-> <<"a">>, reason |-> <<"r">>]

QueryParams == [query |-> <<"q">>]

\* What tool_instance.run(tool_input) does, as the loop sees it
ToolRunOutcomes(tool_name, tool_input) ==
    CASE tool_name = <<"WebSearchTool">> ->
           {WebSearchRun(tool_input, b) : b \in ProviderBehaviours}
      [] tool_name = <<"HumanInTheLoopConsole">> ->
           {Returned(ConsoleToolOutputSchema(
               ExitText([returncode |-> 0, stdout |-> <<"out">>, stderr |-> <<>>]), TRUE))}
      [] OTHER ->
           {Returned(FileManagerOutputSchema(<<"Successfully listed contents of directory">>,
                                             Some(<<>>), TRUE))}

\* The decisions the planner returns in the loop model
Decisions ==
    { Decision(Some(<<"HumanInTheLoopConsole">>), Some(ConsoleParams), None),
      Decision(Some(<<"HumanInTheLoopConsole">>), Some(ConsoleParams), Some(<<"hi">>)),
      Decision(Some(<<"HumanInTheLoopConsole">>), None, None),
      Decision(Some(<<"WebSearchTool">>), Some(QueryParams), None),
      Decision(Some(<<"NoSuchTool">>), None, None),
      Decision(Some(<<"NoSuchTool">>), None, Some(<<"hi">>)),
      Decision(None, None, Some(<<"hi">>)),
      Decision(Some(<<>>), None, Some(<<"hi">>)),
      Decision(None, None, None),
      Decision(None, None, Some(<<>>)) }

\* What the operator types at the main prompt
OperatorInputs ==
    { <<"g", "o", " ">>, <<>>, <<" ">>,
      <<"e", "x", "i", "t">>, <<"E", "x", "i", "t">>, <<"q", "u", "i", "t">> }

Exit == <<"e", "x", "i", "t">>

Quit == <<"q", "u", "i", "t">>

LoopInit ==
    /\ pc = "AwaitingOperatorInput"
    /\ memory = <<>>
    /\ current_task = <<>>
    /\ last_tool_result_str = None
    /\ step_count = 0
    /\ agent_input = NoInput
    /\ agent_output = NoDecision
    /\ turn = 0
    /\ planner_log = <<>>
    /\ tool_runs = 0
    /\ shown = 0
    /\ unknown_log = <<>>
    /\ response_dropped = FALSE

\* Declared fields of a tool's input schema
DeclaredOf(tool_name) ==
    CASE tool_name = <<"HumanInTheLoopConsole">> -> {"command", "reason"}
      [] tool_name = <<"FileManager">> -> {"action", "path", "content", "reason"}
      [] OTHER -> {"query"}

\* tool_params_dict = agent_output.tool_parameters or {}
ParamsDict(d) == IF d.tool_parameters.some THEN d.tool_parameters.val ELSE <<>>

PlannerCall(t, sc, input) == [turn |-> t, step |-> sc, input |-> input]

\* A loop entry that forgets to hand the last tool result to the planner
EnterLoopDropsResult(task, sc, last, mem) ==
    IF LoopContinues(sc)
    THEN /\ pc' = "Planning"
         /\ step_count' = sc + 1
         /\ agent_input' = HeimdallInputSchema(TaskForAgent(task, sc + 1), None)
         /\ planner_log' = Append(planner_log, PlannerCall(turn', sc + 1, agent_input'))
         /\ last_tool_result_str' = None
         /\ memory' = mem
    ELSE /\ pc' = "AwaitingOperatorInput"
         /\ step_count' = sc
         /\ agent_input' = agent_input
         /\ planner_log' = planner_log
         /\ last_tool_result_str' = last
         /\ memory' = EndOfInnerLoop(mem, sc)

\* The while test and the top of the loop body (main.py:169-180), reached with
\* step counter sc, handoff last and memory mem: either the next planner call
\* is made, or the inner loop is over and the turn ends
EnterLoop(task, sc, last, mem) ==
    IF LoopContinues(sc)
    THEN /\ pc' = "Planning"
         /\ step_count' = sc + 1
         /\ agent_input' = HeimdallInputSchema(TaskForAgent(task, sc + 1), last)
         /\ planner_log' = Append(planner_log, PlannerCall(turn', sc + 1, agent_input'))
         /\ last_tool_result_str' = None
         /\ memory' = mem
    ELSE /\ pc' = "AwaitingOperatorInput"
         /\ step_count' = sc
         /\ agent_input' = agent_input
         /\ planner_log' = planner_log
         /\ last_tool_result_str' = last
         /\ memory' = EndOfInnerLoop(mem, sc)

\* A break that ends the session instead of waiting for the operator
BreakEndsSession(last, mem) ==
    /\ pc' = "Done"
    /\ last_tool_result_str' = last
    /\ memory' = EndOfInnerLoop(mem, step_count)
    /\ agent_output' = NoDecision
    /\ UNCHANGED <<current_task, step_count, agent_input, turn, planner_log>>

\* break: leave the inner loop, run the code after it, wait for the operator
Break(last, mem) ==
    /\ pc' = "AwaitingOperatorInput"
    /\ last_tool_result_str' = last
    /\ memory' = EndOfInnerLoop(mem, step_count)
    /\ agent_output' = NoDecision
    /\ UNCHANGED <<current_task, step_count, agent_input, turn, planner_log>>

\* An input handler that does not set the step counter back
HandleInputKeepsCount(text) ==
    IF Lower(text) \in {Exit, Quit}
    THEN /\ pc' = "Done"
         /\ UNCHANGED <<memory, current_task, last_tool_result_str, step_count, agent_input,
                        agent_output, turn, planner_log, tool_runs, shown, unknown_log,
                        response_dropped>>
    ELSE IF Strip(text) = <<>>
    THEN UNCHANGED loopVars
    ELSE /\ turn < MaxTurns
         /\ current_task' = text
         /\ turn' = turn + 1
         /\ EnterLoop(text, step_count, None, add_message(memory, "user", text))
         /\ tool_runs' = 0
         /\ response_dropped' = FALSE
         /\ UNCHANGED <<agent_output, shown, unknown_log>>

\* An input handler that knows the reserved words in lower case only
HandleInputCaseSensitive(text) ==
    IF text \in {Exit, Quit}
    THEN /\ pc' = "Done"
         /\ UNCHANGED <<memory, current_task, last_tool_result_str, step_count, agent_input,
                        agent_output, turn, planner_log, tool_runs, shown, unknown_log,
                        response_dropped>>
    ELSE IF Strip(text) = <<>>
    THEN UNCHANGED loopVars
    ELSE /\ turn < MaxTurns
         /\ current_task' = text
         /\ turn' = turn + 1
         /\ EnterLoop(text, 0, None, add_message(memory, "user", text))
         /\ tool_runs' = 0
         /\ response_dropped' = FALSE
         /\ UNCHANGED <<agent_output, shown, unknown_log>>

\* What main() does with a line read at the main prompt (main.py:152-180):
\* 'exit' or 'quit' in any letter case leaves the outer loop, a blank line
\* goes back to the prompt, any other line starts a turn
HandleInput(text) ==
    IF Lower(text) \in {Exit, Quit}
    THEN /\ pc' = "Done"
         /\ UNCHANGED <<memory, current_task, last_tool_result_str, step_count, agent_input,
                        agent_output, turn, planner_log, tool_runs, shown, unknown_log,
                        response_dropped>>
    ELSE IF Strip(text) = <<>>
    THEN UNCHANGED loopVars
    ELSE /\ turn < MaxTurns
         /\ current_task' = text
         /\ turn' = turn + 1
         /\ EnterLoop(text, 0, None, add_message(memory, "user", text))
         /\ tool_runs' = 0
         /\ response_dropped' = FALSE
         /\ UNCHANGED <<agent_output, shown, unknown_log>>

\* An outer handler that goes back to the prompt instead of leaving the loop
EndSessionContinues ==
    /\ pc' = "AwaitingOperatorInput"
    /\ UNCHANGED <<memory, current_task, last_tool_result_str, step_count, agent_input,
                   agent_output, turn, planner_log, tool_runs, shown, unknown_log,
                   response_dropped>>

\* KeyboardInterrupt or EOFError reaches the outer handler: break (main.py:283-288)
EndSession ==
    /\ pc' = "Done"
    /\ UNCHANGED <<memory, current_task, last_tool_result_str, step_count, agent_input,
                   agent_output, turn, planner_log, tool_runs, shown, unknown_log,
                   response_dropped>>

\* console.input returns 'exit' or 'quit' in any letter case (main.py:152)
OperatorExit ==
    /\ pc = "AwaitingOperatorInput"
    /\ \E text \in OperatorInputs :
         /\ Lower(text) \in {Exit, Quit}
         /\ HandleInput(text)
    /\ UNCHANGED <<toolVars, observed, searchVars>>

\* console.input returns blank text: continue (main.py:155)
OperatorBlank ==
    /\ pc = "AwaitingOperatorInput"
    /\ \E text \in OperatorInputs :
         /\ Lower(text) \notin {Exit, Quit}
         /\ Strip(text) = <<>>
         /\ HandleInput(text)
    /\ UNCHANGED <<toolVars, observed, searchVars>>

\* console.input raises EOFError or KeyboardInterrupt (main.py:283-288)
OperatorInterrupt ==
    /\ pc = "AwaitingOperatorInput"
    /\ EndSession
    /\ UNCHANGED <<toolVars, observed, searchVars>>

\* A turn start that does not clear the handoff left by the turn before
OperatorTaskKeepsLast ==
    /\ pc = "AwaitingOperatorInput"
    /\ turn < MaxTurns
    /\ \E text \in OperatorInputs :
         /\ Lower(text) \notin {Exit, Quit}
         /\ Strip(text) # <<>>
         /\ current_task' = text
         /\ turn' = turn + 1
         /\ EnterLoop(text, 0, last_tool_result_str, add_message(memory, "user", text))
    /\ tool_runs' = 0
    /\ response_dropped' = FALSE
    /\ UNCHANGED <<agent_output, shown, unknown_log>>
    /\ UNCHANGED <<toolVars, observed, searchVars>>

\* console.input returns a task: the turn starts (main.py:158-180)
OperatorTask ==
    /\ pc = "AwaitingOperatorInput"
    /\ \E text \in OperatorInputs :
         /\ Lower(text) \notin {Exit, Quit}
         /\ Strip(text) # <<>>
         /\ HandleInput(text)
    /\ UNCHANGED <<toolVars, observed, searchVars>>

\* heimdall_agent.run returns one of the given decisions (main.py:184)
AgentReturnsFrom(decisions) ==
    /\ pc = "Planning"
    /\ \E d \in decisions : agent_output' = d
    /\ pc' = "Handling"
    /\ UNCHANGED <<memory, current_task, last_tool_result_str, step_count, agent_input,
                   turn, planner_log, tool_runs, shown, unknown_log,
                   response_dropped>>
    /\ UNCHANGED <<toolVars, observed, searchVars>>

AgentReturns == AgentReturnsFrom(Decisions)

\* A handler that records the planner's exception and tries the next step
\* instead of leaving the inner loop
AgentRaisesAndRetries ==
    /\ pc = "Planning"
    /\ UNCHANGED <<current_task, turn>>
    /\ EnterLoop(current_task, step_count, last_tool_result_str,
                 add_message(memory, "system", InternalErrorText(<<"planner failed">>)))
    /\ agent_output' = NoDecision
    /\ UNCHANGED <<tool_runs, shown, unknown_log, response_dropped>>
    /\ UNCHANGED <<toolVars, observed, searchVars>>

\* heimdall_agent.run raises an Exception (main.py:185-192)
AgentRaises ==
    /\ pc = "Planning"
    /\ Break(last_tool_result_str,
             add_message(memory, "system", InternalErrorText(<<"planner failed">>)))
    /\ UNCHANGED <<tool_runs, shown, unknown_log, response_dropped>>
    /\ UNCHANGED <<toolVars, observed, searchVars>>

\* KeyboardInterrupt during heimdall_agent.run: not an Exception, so it reaches
\* the outer handler (main.py:283-285)
AgentInterrupted ==
    /\ pc = "Planning"
    /\ EndSession
    /\ UNCHANGED <<toolVars, observed, searchVars>>

\* A branch order in which a response, when present, is preferred to the tool
ToolPathUnlessResponse(d) == Truthy(d.tool_to_use) /\ ~Truthy(d.response_to_user)

\* if agent_output.tool_to_use
ToolPath(d) == Truthy(d.tool_to_use)

\* elif agent_output.response_to_user
ResponsePath(d) == ~ToolPath(d) /\ Truthy(d.response_to_user)

\* A registered tool whose input cannot be built: the ValidationError is caught
\* by the dispatch handler (main.py:217, 233-241)
ToolInputInvalid ==
    /\ pc = "Handling"
    /\ ToolPath(agent_output)
    /\ agent_output.tool_to_use.val \in ToolNames
    /\ LET tool_name == agent_output.tool_to_use.val
           error_message == ToolErrorText(tool_name, <<"ValidationError">>)
       IN /\ ~Validates(RequiredOf(tool_name), ParamsDict(agent_output))
          /\ Break(Some(error_message), add_message(memory, "system", error_message))
    /\ response_dropped' = Truthy(agent_output.response_to_user)
    /\ UNCHANGED <<tool_runs, shown, unknown_log>>
    /\ UNCHANGED <<toolVars, observed, searchVars>>

\* tool_input = tool_instance.input_schema(**tool_params_dict) (main.py:217)
ToolInput ==
    Construct(DeclaredOf(agent_output.tool_to_use.val), ParamsDict(agent_output))

\* A dispatch without the handler around the run: an exception of the tool
\* leaves the loop and ends the session
DispatchUncaught(outcomes) ==
    /\ pc = "Handling"
    /\ ToolPath(agent_output)
    /\ agent_output.tool_to_use.val \in ToolNames
    /\ LET tool_name == agent_output.tool_to_use.val
           dict == ParamsDict(agent_output)
       IN /\ Validates(RequiredOf(tool_name), dict)
          /\ \E o \in outcomes :
               IF o.kind = "returned"
               THEN LET result_str == model_dump_json(o.out)
                    IN /\ UNCHANGED <<current_task, turn>>
                       /\ agent_output' = NoDecision
                       /\ EnterLoop(current_task, step_count, Some(result_str),
                                    add_message(memory, "system",
                                                ToolOutputText(tool_name, result_str)))
               ELSE /\ pc' = "Done"
                    /\ UNCHANGED <<memory, current_task, last_tool_result_str, step_count,
                                   agent_input, agent_output, turn, planner_log>>
    /\ tool_runs' = tool_runs + 1
    /\ response_dropped' = Truthy(agent_output.response_to_user)
    /\ UNCHANGED <<shown, unknown_log>>
    /\ UNCHANGED <<toolVars, observed, searchVars>>

\* A registered tool is run (main.py:202-241): its result is recorded and the
\* loop goes on, or its exception is recorded and the loop is left.  outcomes
\* is what the tool's run can do with the input built from the decision.
Dispatch(outcomes) ==
    /\ pc = "Handling"
    /\ ToolPath(agent_output)
    /\ agent_output.tool_to_use.val \in ToolNames
    /\ LET tool_name == agent_output.tool_to_use.val
           dict == ParamsDict(agent_output)
       IN /\ Validates(RequiredOf(tool_name), dict)
          /\ \E o \in outcomes :
               IF o.kind = "returned"
               THEN LET result_str == model_dump_json(o.out)
                    IN /\ UNCHANGED <<current_task, turn>>
                       /\ agent_output' = NoDecision
                       /\ EnterLoop(current_task, step_count, Some(result_str),
                                    add_message(memory, "system",
                                                ToolOutputText(tool_name, result_str)))
               ELSE LET error_message == ToolErrorText(tool_name, o.err)
                    IN Break(Some(error_message),
                             add_message(memory, "system", error_message))
    /\ tool_runs' = tool_runs + 1
    /\ response_dropped' = Truthy(agent_output.response_to_user)
    /\ UNCHANGED <<shown, unknown_log>>
    /\ UNCHANGED <<toolVars, observed, searchVars>>

DispatchTool == Dispatch(ToolRunOutcomes(agent_output.tool_to_use.val, ToolInput))

\* The decision names a tool that is no key of tools (main.py:242-251)
UnknownTool ==
    /\ pc = "Handling"
    /\ ToolPath(agent_output)
    /\ agent_output.tool_to_use.val \notin ToolNames
    /\ LET tool_name == agent_output.tool_to_use.val
           error_message == UnknownToolError(tool_name)
       IN /\ Break(Some(error_message),
                   add_message(memory, "system", HallucinatedText(tool_name)))
          /\ unknown_log' = Append(unknown_log,
                                   [at |-> Len(planner_log), error |-> error_message])
    /\ response_dropped' = Truthy(agent_output.response_to_user)
    /\ UNCHANGED <<tool_runs, shown>>
    /\ UNCHANGED <<toolVars, observed, searchVars>>

\* A response branch that goes on to the next step instead of leaving the loop
RespondAndContinue ==
    /\ pc = "Handling"
    /\ ResponsePath(agent_output)
    /\ UNCHANGED <<current_task, turn>>
    /\ EnterLoop(current_task, step_count, last_tool_result_str,
                 add_message(memory, "assistant", agent_output.response_to_user.val))
    /\ agent_output' = NoDecision
    /\ shown' = shown + 1
    /\ response_dropped' = FALSE
    /\ UNCHANGED <<tool_runs, unknown_log>>
    /\ UNCHANGED <<toolVars, observed, searchVars>>

\* A response branch that records the response as a system entry
RespondAsSystem ==
    /\ pc = "Handling"
    /\ ResponsePath(agent_output)
    /\ Break(last_tool_result_str,
             add_message(memory, "system", agent_output.response_to_user.val))
    /\ shown' = shown + 1
    /\ response_dropped' = FALSE
    /\ UNCHANGED <<tool_runs, unknown_log>>
    /\ UNCHANGED <<toolVars, observed, searchVars>>

\* The decision carries a response and no tool (main.py:254-262)
Respond ==
    /\ pc = "Handling"
    /\ ResponsePath(agent_output)
    /\ Break(last_tool_result_str,
             add_message(memory, "assistant", agent_output.response_to_user.val))
    /\ shown' = shown + 1
    /\ response_dropped' = FALSE
    /\ UNCHANGED <<tool_runs, unknown_log>>
    /\ UNCHANGED <<toolVars, observed, searchVars>>

\* A no-op branch that leaves the loop without recording anything
NoActionSilent ==
    /\ pc = "Handling"
    /\ ~ToolPath(agent_output)
    /\ ~ResponsePath(agent_output)
    /\ Break(last_tool_result_str, memory)
    /\ response_dropped' = FALSE
    /\ UNCHANGED <<tool_runs, shown, unknown_log>>
    /\ UNCHANGED <<toolVars, observed, searchVars>>

\* The decision carries neither (main.py:265-272)
NoAction ==
    /\ pc = "Handling"
    /\ ~ToolPath(agent_output)
    /\ ~ResponsePath(agent_output)
    /\ Break(last_tool_result_str, add_message(memory, "system", NoActionText))
    /\ response_dropped' = FALSE
    /\ UNCHANGED <<tool_runs, shown, unknown_log>>
    /\ UNCHANGED <<toolVars, observed, searchVars>>

---------------------------------------------------------------------------
(* Paths: os.path as FileManagerTool uses it (posixpath)                   *)

Slash == "/"

\* str.split('/')
RECURSIVE SplitFrom(_, _, _)
SplitFrom(s, i, cur) ==
    IF i > Len(s) THEN <<cur>>
    ELSE IF s[i] = Slash THEN <<cur>> \o SplitFrom(s, i + 1, <<>>)
    ELSE SplitFrom(s, i + 1, Append(cur, s[i]))

Split(s) == SplitFrom(s, 1, <<>>)

\* '/'.join(comps)
RECURSIVE Join(_)
Join(comps) ==
    IF comps = <<>> THEN <<>>
    ELSE IF Len(comps) = 1 THEN comps[1]
    ELSE comps[1] \o <<Slash>> \o Join(Tail(comps))

\* os.path.isabs
isabs(path) == StartsWith(path, <<Slash>>)

\* os.path.join(a, p)
join(a, path) ==
    IF isabs(path) THEN path
    ELSE IF a = <<>> \/ Last(a) = Slash THEN a \o path
    ELSE a \o <<Slash>> \o path

DotDot == <<".", ".">>

\* The component loop of os.path.normpath
RECURSIVE NormComps(_, _, _)
NormComps(comps, initial_slashes, new_comps) ==
    IF comps = <<>> THEN new_comps
    ELSE LET comp == Head(comps)
             rest == Tail(comps)
         IN IF comp = <<>> \/ comp = <<".">>
            THEN NormComps(rest, initial_slashes, new_comps)
            ELSE IF \/ comp # DotDot
                    \/ (initial_slashes = 0 /\ new_comps = <<>>)
                    \/ (new_comps # <<>> /\ Last(new_comps) = DotDot)
            THEN NormComps(rest, initial_slashes, Append(new_comps, comp))
            ELSE IF new_comps # <<>>
            THEN NormComps(rest, initial_slashes, SubSeq(new_comps, 1, Len(new_comps) - 1))
            ELSE NormComps(rest, initial_slashes, new_comps)

\* os.path.normpath
normpath(path) ==
    IF path = <<>> THEN <<".">>
    ELSE LET initial_slashes ==
                 IF ~StartsWith(path, <<Slash>>) THEN 0
                 ELSE IF StartsWith(path, <<Slash, Slash>>)
                         /\ ~StartsWith(path, <<Slash, Slash, Slash>>) THEN 2
                 ELSE 1
             joined == Join(NormComps(Split(path), initial_slashes, <<>>))
             result == [i \in 1..initial_slashes |-> Slash] \o joined
         IN IF result = <<>> THEN <<".">> ELSE result

\* Index of the last '/' of a path, 0 when there is none (str.rfind + 1)
RECURSIVE RFindSlash(_, _)
RFindSlash(s, i) == IF i = 0 THEN 0 ELSE IF s[i] = Slash THEN i ELSE RFindSlash(s, i - 1)

RECURSIVE RStripSlash(_)
RStripSlash(s) ==
    IF s # <<>> /\ Last(s) = Slash THEN RStripSlash(SubSeq(s, 1, Len(s) - 1)) ELSE s

\* os.path.dirname
dirname(path) ==
    LET i == RFindSlash(path, Len(path))
        head == SubSeq(path, 1, i)
    IN IF head # <<>> /\ \E k \in 1..Len(head) : head[k] # Slash
       THEN RStripSlash(head) ELSE head

\* os.path.basename
basename(path) == SubSeq(path, RFindSlash(path, Len(path)) + 1, Len(path))

\* self.working_dir: the absolute path of the configured root
working_dir == <<Slash, "w">>

\* A resolution without the test for absolute paths: only the prefix test is
\* left
resolve_pathPrefixOnly(path) ==
    LET abs_path == normpath(join(working_dir, path))
    IN IF ~StartsWith(abs_path, working_dir) THEN None ELSE Some(abs_path)

\* FileManagerTool._resolve_path: the absolute path, or None
resolve_path(path) ==
    IF isabs(path) THEN None
    ELSE LET abs_path == normpath(join(working_dir, path))
         IN IF ~StartsWith(abs_path, working_dir) THEN None ELSE Some(abs_path)

\* The root itself or a descendant of it
InsideRoot(abs_path) ==
    abs_path = working_dir \/ StartsWith(abs_path, working_dir \o <<Slash>>)

\* The path components the model builds request paths from
PathComps == { <<>>, <<".">>, DotDot, <<"w">>, <<"w", "w">> }

RECURSIVE CompSeqs(_)
CompSeqs(n) ==
    IF n = 0 THEN {<<>>}
    ELSE LET shorter == CompSeqs(n - 1)
         IN shorter \cup { Append(cs, c) : cs \in { x \in shorter : Len(x) = n - 1 },
                                           c \in PathComps }

\* Every path string of at most MaxPathComps components, and one path into a
\* missing directory beside the root whose name begins with the root's name
RequestPaths ==
    { Join(cs) : cs \in CompSeqs(MaxPathComps) \ {<<>>} }
      \cup { Join(<<DotDot, <<"w", "x">>, <<"n">>>>) }

---------------------------------------------------------------------------
(* The filesystem                                                          *)

Root == <<Slash>>

DirNode == [kind |-> "dir", data |-> <<>>]

FileNode(data) == [kind |-> "file", data |-> data]

\* The root directory exists (the constructor creates it), holds one file, and
\* has a sibling whose name begins with the root's name
InitialFs ==
    (Root :> DirNode) @@ (working_dir :> DirNode)
      @@ ((working_dir \o <<Slash, "w">>) :> FileNode(<<"d">>))
      @@ (<<Slash, "w", "w">> :> FileNode(<<"s">>))

exists(f, path) == path \in DOMAIN f

isfile(f, path) == exists(f, path) /\ f[path].kind = "file"

isdir(f, path) == exists(f, path) /\ f[path].kind = "dir"

\* A path and the directories above it, the path first
RECURSIVE Ancestors(_)
Ancestors(path) ==
    IF path = Root \/ dirname(path) = path \/ path = <<>> THEN {path}
    ELSE {path} \cup Ancestors(dirname(path))

\* os.makedirs(path) fails when something above the path is not a directory
MakedirsFails(f, path, disk) ==
    disk = "io_error" \/ \E a \in Ancestors(path) : isfile(f, a)

\* os.makedirs(path): the path and every missing directory above it
makedirs(f, path) ==
    [q \in DOMAIN f \cup Ancestors(path) |-> IF q \in DOMAIN f THEN f[q] ELSE DirNode]

\* The names in a directory
Entries(f, dir) == { basename(q) : q \in { x \in DOMAIN f : x # dir /\ dirname(x) = dir } }

\* "\n".join(os.listdir(dir)), in every order listdir may give
Listings(f, dir) ==
    LET names == Entries(f, dir)
        n == Cardinality(names)
        orders == { o \in [1..n -> names] : \A i, j \in 1..n : i # j => o[i] # o[j] }
        RECURSIVE Lines(_, _)
        Lines(o, i) ==
            IF i > n THEN <<>>
            ELSE IF i = n THEN o[i]
            ELSE o[i] \o <<"\n">> \o Lines(o, i + 1)
    IN { Lines(o, 1) : o \in orders }

\* os.path.relpath(target, working_dir), the root being one level below /
relpath(target) ==
    IF target = working_dir THEN <<".">>
    ELSE IF InsideRoot(target) THEN SubSeq(target, Len(working_dir) + 2, Len(target))
    ELSE IF target = Root THEN DotDot
    ELSE DotDot \o target

\* open(path, mode) raises IOError: the disk fails, or the path is a directory
OpenFails(f, path, disk) == disk = "io_error" \/ isdir(f, path)

\* A write that never empties the file first
WriteFileAlwaysAppends(f, path, mode, content) ==
    LET old == IF isfile(f, path) THEN f[path].data ELSE <<>>
    IN [q \in DOMAIN f \cup {path} |-> IF q = path THEN FileNode(old \o content) ELSE f[q]]

\* open(path, 'w' or 'a').write(content)
WriteFile(f, path, mode, content) ==
    LET old == IF mode = "a" /\ isfile(f, path) THEN f[path].data ELSE <<>>
    IN [q \in DOMAIN f \cup {path} |-> IF q = path THEN FileNode(old \o content) ELSE f[q]]

---------------------------------------------------------------------------
(* FileManagerTool: atomic_heimdall/tools/file_manager_tool.py             *)

FileActions == {"read", "list", "write", "append", "delete"}

FileContents == {None, Some(<<"c">>)}

Disk == {"ok", "io_error"}

\* What the operator types at an approval prompt
Answers ==
    { <<"y">>, <<" ", "Y">>, <<"n">>, <<"N", " ">>, <<"e", "d", "i", "t">>,
      <<"E", "d", "i", "t">>, <<"x">>, <<>> }

\* An approval test that takes 'n' for consent
NoAsYes == <<"n">>

Yes == <<"y">>

No == <<"n">>

Edit == <<"e", "d", "i", "t">>

\* input(...).lower().strip()
Approval(raw) == Strip(Lower(raw))

DisallowedStatus(path) == <<"Error: Invalid or disallowed path">> \o path

RejectedStatus(action, path) == <<"User rejected the", action, "operation on">> \o path

PerformedStatus(action, path) == <<"Successfully performed", action, "on file">> \o path

IOErrorStatus(action, path) == <<"Error performing", action, "on">> \o path

\* The read branch of run (file_manager_tool.py:87-96)
ReadResult(f, safe_abs_path, path, disk) ==
    IF ~exists(f, safe_abs_path)
    THEN FileManagerOutputSchema(<<"Error: File not found at">> \o path, None, FALSE)
    ELSE IF ~isfile(f, safe_abs_path)
    THEN FileManagerOutputSchema(<<"Error: not a file:">> \o path, None, FALSE)
    ELSE IF OpenFails(f, safe_abs_path, disk)
    THEN FileManagerOutputSchema(IOErrorStatus("read", path), None, FALSE)
    ELSE FileManagerOutputSchema(<<"Successfully read content from">> \o path,
                                 Some(f[safe_abs_path].data), TRUE)

\* A read that opens the file for writing: the file is emptied
ReadEffectTruncates(f, safe_abs_path) ==
    IF isfile(f, safe_abs_path) THEN WriteFile(f, safe_abs_path, "w", <<>>) ELSE f

\* The filesystem after the read branch: open(safe_abs_path, 'r') and f.read()
\* leave it as it is (file_manager_tool.py:93-94)
ReadEffect(f, safe_abs_path) == f

\* A list branch that does not go from a file to its directory
ListResultsOfDirsOnly(f, safe_abs_path, path) ==
    IF ~exists(f, safe_abs_path) \/ ~isdir(f, safe_abs_path)
    THEN {FileManagerOutputSchema(
             <<"Error: Directory not found or is not a directory at">> \o path, None, FALSE)}
    ELSE {FileManagerOutputSchema(
             <<"Successfully listed contents of directory">> \o relpath(safe_abs_path),
             Some(listing), TRUE) : listing \in Listings(f, safe_abs_path)}

\* The list branch of run (file_manager_tool.py:98-112)
ListResults(f, safe_abs_path, path) ==
    LET target_path == IF isfile(f, safe_abs_path) THEN dirname(safe_abs_path)
                       ELSE safe_abs_path
    IN IF ~exists(f, target_path) \/ ~isdir(f, target_path)
       THEN {FileManagerOutputSchema(
                <<"Error: Directory not found or is not a directory at">> \o path, None, FALSE)}
       ELSE {FileManagerOutputSchema(
                <<"Successfully listed contents of directory">> \o relpath(target_path),
                Some(listing), TRUE) : listing \in Listings(f, target_path)}

\* The run has returned: the caller holds the result, the tool is idle again
Finish(result) ==
    /\ tpc' = "returned"
    /\ ret' = result

\* A run that asks for approval before a read or a list as well
FileManagerRunAlwaysAsks(action, path, content, disk) ==
    /\ tpc = "idle"
    /\ action \in {"read", "list"}
    /\ resolve_path(path).some
    /\ params' = [tool |-> "FileManager", action |-> action, path |-> path,
                  content |-> content, reason |-> <<"r">>]
    /\ fs_at_call' = fs
    /\ answered' = <<>>
    /\ last_edit' = None
    /\ happened' = "none"
    /\ prompt_interrupted' = FALSE
    /\ fs_accessed' = FALSE
    /\ prompted' = TRUE
    /\ tpc' = "file_confirm"
    /\ ret' = NoReturn
    /\ UNCHANGED <<command, presented, spawned, fs, writes>>

\* FileManagerTool.run, from its first line to its return or to the approval
\* prompt of a write or an append (file_manager_tool.py:68-129)
FileManagerRun(action, path, content, disk) ==
    /\ tpc = "idle"
    /\ LET safe == resolve_path(path)
           safe_abs_path == safe.val
           parent_dir == dirname(safe_abs_path)
           mutating == action \in {"write", "append"}
       IN /\ mutating => writes < MaxWrites
          /\ writes' = IF mutating THEN writes + 1 ELSE writes
          /\ params' = [tool |-> "FileManager", action |-> action, path |-> path,
                        content |-> content, reason |-> <<"r">>]
          /\ fs_at_call' = fs
          /\ answered' = <<>>
          /\ last_edit' = None
          /\ happened' = "none"
          /\ prompt_interrupted' = FALSE
          /\ UNCHANGED <<command, presented, spawned>>
          /\ IF ~safe.some
             THEN /\ Finish(Returned(FileManagerOutputSchema(DisallowedStatus(path),
                                                             None, FALSE)))
                  /\ UNCHANGED fs
                  /\ fs_accessed' = FALSE
                  /\ prompted' = FALSE
             ELSE IF action = "read"
             THEN /\ Finish(Returned(ReadResult(fs, safe_abs_path, path, disk)))
                  /\ fs' = ReadEffect(fs, safe_abs_path)
                  /\ fs_accessed' = TRUE
                  /\ prompted' = FALSE
             ELSE IF action = "list"
             THEN /\ \E out \in ListResults(fs, safe_abs_path, path) : Finish(Returned(out))
                  /\ UNCHANGED fs
                  /\ fs_accessed' = TRUE
                  /\ prompted' = FALSE
             ELSE IF ~mutating
             THEN /\ Finish(Returned(FileManagerOutputSchema(
                                <<"Error: Unknown action", action>>, None, FALSE)))
                  /\ UNCHANGED fs
                  /\ fs_accessed' = FALSE
                  /\ prompted' = FALSE
             ELSE IF ~content.some
             THEN /\ Finish(Returned(FileManagerOutputSchema(
                                <<"Error: 'content' parameter is required for", action>>,
                                None, FALSE)))
                  /\ UNCHANGED fs
                  /\ fs_accessed' = FALSE
                  /\ prompted' = FALSE
             ELSE IF ~exists(fs, parent_dir) /\ MakedirsFails(fs, parent_dir, disk)
             THEN /\ Finish(Returned(FileManagerOutputSchema(
                                <<"Error: Could not create directory">> \o dirname(path),
                                None, FALSE)))
                  /\ UNCHANGED fs
                  /\ fs_accessed' = TRUE
                  /\ prompted' = FALSE
             ELSE IF exists(fs, parent_dir) /\ ~isdir(fs, parent_dir)
             THEN /\ Finish(Returned(FileManagerOutputSchema(
                                <<"Error: Cannot create file, not a directory:">>
                                  \o dirname(path), None, FALSE)))
                  /\ UNCHANGED fs
                  /\ fs_accessed' = TRUE
                  /\ prompted' = FALSE
             ELSE /\ fs' = IF ~exists(fs, parent_dir) THEN makedirs(fs, parent_dir) ELSE fs
                  /\ fs_accessed' = TRUE
                  /\ prompted' = TRUE
                  /\ tpc' = "file_confirm"
                  /\ ret' = NoReturn

\* The agent asks for a file operation
FileManagerCall ==
    /\ tpc = "idle"
    /\ \E action \in FileActions, path \in RequestPaths, content \in FileContents,
          disk \in Disk :
         FileManagerRun(action, path, content, disk)
    /\ UNCHANGED <<loopVars, observed, searchVars>>

\* _confirm_write_action reads the operator's answer, and run goes on from it
\* (file_manager_tool.py:55-63, 129-136, 140-152)
FileConfirmed(raw, disk) ==
    /\ tpc = "file_confirm"
    /\ LET approval == Approval(raw)
           path == params.path
           action == params.action
           safe_abs_path == resolve_path(path).val
           mode == IF action = "write" THEN "w" ELSE "a"
       IN /\ answered' = raw
          /\ IF approval = Yes
             THEN IF OpenFails(fs, safe_abs_path, disk)
                  THEN /\ Finish(Returned(FileManagerOutputSchema(
                                     IOErrorStatus(action, path), None, FALSE)))
                       /\ UNCHANGED fs
                  ELSE /\ Finish(Returned(FileManagerOutputSchema(
                                     PerformedStatus(action, path), None, TRUE)))
                       /\ fs' = WriteFile(fs, safe_abs_path, mode, params.content.val)
             ELSE IF approval = No
             THEN /\ Finish(Returned(FileManagerOutputSchema(
                                RejectedStatus(action, path), None, FALSE)))
                  /\ UNCHANGED fs
             ELSE UNCHANGED <<tpc, ret, fs>>
    /\ UNCHANGED <<params, command, presented, spawned, fs_at_call, fs_accessed,
                   prompted, last_edit, happened, prompt_interrupted, writes>>

\* The operator answers the approval prompt of a write or an append
FileConfirmAnswer ==
    /\ tpc = "file_confirm"
    /\ \E raw \in Answers, disk \in Disk : FileConfirmed(raw, disk)
    /\ UNCHANGED <<loopVars, observed, searchVars>>

\* EOFError or KeyboardInterrupt at the approval prompt (file_manager_tool.py:64-66)
FileConfirmInterrupt ==
    /\ tpc = "file_confirm"
    /\ Finish(Returned(FileManagerOutputSchema(
                  RejectedStatus(params.action, params.path), None, FALSE)))
    /\ prompt_interrupted' = TRUE
    /\ UNCHANGED <<params, command, presented, answered, spawned, fs, fs_at_call,
                   fs_accessed, prompted, last_edit, happened, writes>>
    /\ UNCHANGED <<loopVars, observed, searchVars>>

---------------------------------------------------------------------------
(* FileManager of the smol variant: smol_heimdall/tools/file_manager.py    *)

\* The components os.path.commonpath compares: empty ones and '.' are dropped
PathParts(path) ==
    SelectSeq(Split(path), LAMBDA c : c # <<>> /\ c # <<".">>)

\* os.path.commonpath([a, b]) of two absolute paths: the longest sequence of
\* whole components both begin with
commonpath(a, b) ==
    LET pa == PathParts(a)
        pb == PathParts(b)
        agree == { n \in 0..Len(pa) : n <= Len(pb) /\ SubSeq(pa, 1, n) = SubSeq(pb, 1, n) }
        most == CHOOSE n \in agree : \A k \in agree : k <= n
    IN <<Slash>> \o Join(SubSeq(pa, 1, most))

\* The place the operating system finds for an absolute, normalized path:
\* normpath keeps a leading '//', which Linux takes for '/'
Located(abs_path) == <<Slash>> \o Join(PathParts(abs_path))

\* A resolution that tests the text of the path, as the atomic tool does
smol_resolve_pathByPrefix(path) ==
    LET abs_path == normpath(join(working_dir, path))
    IN IF ~StartsWith(abs_path, working_dir) THEN None ELSE Some(abs_path)

\* FileManager._resolve_path (lines 62-80).  os.path.abspath of a path that is
\* absolute already is os.path.normpath of it
smol_resolve_path(path) ==
    LET abs_path == normpath(join(working_dir, path))
    IN IF commonpath(working_dir, abs_path) # working_dir THEN None ELSE Some(abs_path)

SmolDisallowedText(path) ==
    <<"Error: Invalid or disallowed path">> \o path \o <<"Operations confined to">>
      \o working_dir

\* FileManager.__call__, from its first line to its return or to the approval
\* prompt of a write or an append (lines 108-178)
SmolFileManagerCall(action, path, content, disk) ==
    /\ tpc = "idle"
    /\ LET safe == smol_resolve_path(path)
           safe_path == Located(safe.val)
           parent_dir == dirname(safe_path)
           target_path == IF isfile(fs, safe_path) THEN dirname(safe_path) ELSE safe_path
           mutating == action \in {"write", "append"}
       IN /\ mutating => writes < MaxWrites
          /\ writes' = IF mutating THEN writes + 1 ELSE writes
          /\ params' = [tool |-> "SmolFileManager", action |-> action, path |-> path,
                        content |-> content, reason |-> <<"r">>]
          /\ fs_at_call' = fs
          /\ answered' = <<>>
          /\ last_edit' = None
          /\ happened' = "none"
          /\ prompt_interrupted' = FALSE
          /\ UNCHANGED <<command, presented, spawned>>
          /\ IF ~safe.some
             THEN /\ Finish(Returned(SmolDisallowedText(path)))
                  /\ UNCHANGED fs
                  /\ fs_accessed' = FALSE
                  /\ prompted' = FALSE
             ELSE IF action = "read"
             THEN /\ Finish(Returned(
                       IF ~exists(fs, safe_path)
                       THEN <<"Error: File not found at">> \o path
                       ELSE IF ~isfile(fs, safe_path)
                       THEN <<"Error:">> \o path \o <<"is not a file.">>
                       ELSE IF OpenFails(fs, safe_path, disk)
                       THEN IOErrorStatus("read", path)
                       ELSE <<"Successfully read content from">> \o path \o <<":\n">>
                              \o fs[safe_path].data))
                  /\ UNCHANGED fs
                  /\ fs_accessed' = TRUE
                  /\ prompted' = FALSE
             ELSE IF action = "list"
             THEN /\ IF ~exists(fs, target_path) \/ ~isdir(fs, target_path)
                     THEN Finish(Returned(
                              IF exists(fs, safe_path)
                              THEN <<"Error:">> \o path \o <<"exists but is not a directory.">>
                              ELSE <<"Error: Directory not found at">> \o path))
                     ELSE \E listing \in Listings(fs, target_path) :
                              Finish(Returned(
                                  <<"Successfully listed contents of directory">>
                                    \o relpath(target_path) \o <<":\n">> \o listing))
                  /\ UNCHANGED fs
                  /\ fs_accessed' = TRUE
                  /\ prompted' = FALSE
             ELSE IF ~mutating
             THEN /\ Finish(Returned(<<"Error: Unknown action", action>>))
                  /\ UNCHANGED fs
                  /\ fs_accessed' = FALSE
                  /\ prompted' = FALSE
             ELSE IF ~content.some
             THEN /\ Finish(Returned(<<"Error: 'content' is required for", action, "action.">>))
                  /\ UNCHANGED fs
                  /\ fs_accessed' = FALSE
                  /\ prompted' = FALSE
             ELSE IF ~exists(fs, parent_dir) /\ MakedirsFails(fs, parent_dir, disk)
             THEN /\ Finish(Returned(<<"Error: Could not create directory">> \o dirname(path)))
                  /\ UNCHANGED fs
                  /\ fs_accessed' = TRUE
                  /\ prompted' = FALSE
             ELSE IF exists(fs, parent_dir) /\ ~isdir(fs, parent_dir)
             THEN /\ Finish(Returned(<<"Error: Cannot create file,">> \o dirname(path)
                                       \o <<"is not a directory.">>))
                  /\ UNCHANGED fs
                  /\ fs_accessed' = TRUE
                  /\ prompted' = FALSE
             ELSE /\ fs' = IF ~exists(fs, parent_dir) THEN makedirs(fs, parent_dir) ELSE fs
                  /\ fs_accessed' = TRUE
                  /\ prompted' = TRUE
                  /\ tpc' = "smol_confirm"
                  /\ ret' = NoReturn

\* Absolute request paths, beside the relative ones of the atomic tool
AbsolutePaths == { working_dir, working_dir \o <<Slash, "w">>, working_dir \o <<"w">> }

\* The agent calls the tool
SmolRequest ==
    /\ tpc = "idle"
    /\ \E action \in FileActions, path \in RequestPaths \cup AbsolutePaths,
          content \in FileContents, disk \in Disk :
         SmolFileManagerCall(action, path, content, disk)
    /\ UNCHANGED <<loopVars, observed, searchVars>>

\* _confirm_write_action reads the operator's answer, and __call__ goes on from
\* it (lines 95-103, 162-169, 175-176)
SmolConfirmAnswer ==
    /\ tpc = "smol_confirm"
    /\ \E raw \in Answers, disk \in Disk :
         LET approval == Approval(raw)
             path == params.path
             action == params.action
             safe_path == Located(smol_resolve_path(path).val)
             mode == IF action = "write" THEN "w" ELSE "a"
         IN /\ answered' = raw
            /\ IF approval = Yes
               THEN IF OpenFails(fs, safe_path, disk)
                    THEN /\ Finish(Returned(IOErrorStatus(action, path)))
                         /\ UNCHANGED fs
                    ELSE /\ Finish(Returned(PerformedStatus(action, path)))
                         /\ fs' = WriteFile(fs, safe_path, mode, params.content.val)
               ELSE IF approval = No
               THEN /\ Finish(Returned(RejectedStatus(action, path)))
                    /\ UNCHANGED fs
               ELSE UNCHANGED <<tpc, ret, fs>>
    /\ UNCHANGED <<params, command, presented, spawned, fs_at_call, fs_accessed,
                   prompted, last_edit, happened, prompt_interrupted, writes>>
    /\ UNCHANGED <<loopVars, observed, searchVars>>

\* EOFError or KeyboardInterrupt at the approval prompt (lines 104-106)
SmolConfirmInterrupt ==
    /\ tpc = "smol_confirm"
    /\ Finish(Returned(RejectedStatus(params.action, params.path)))
    /\ prompt_interrupted' = TRUE
    /\ UNCHANGED <<params, command, presented, answered, spawned, fs, fs_at_call,
                   fs_accessed, prompted, last_edit, happened, writes>>
    /\ UNCHANGED <<loopVars, observed, searchVars>>

---------------------------------------------------------------------------
(* HumanInTheLoopConsoleTool: atomic_heimdall/tools/human_in_the_loop_console_tool.py *)

\* ConsoleToolConfig.timeout, in seconds
timeout == 300

Quote == "'"

\* shlex.split(command): the argument vector, or ValueError when a quotation
\* is left open.  Blanks separate words, a quoted stretch belongs to its word.
RECURSIVE ShlexFrom(_, _, _, _, _, _)
ShlexFrom(s, i, cur, in_word, in_quote, acc) ==
    IF i > Len(s)
    THEN IF in_quote THEN [ok |-> FALSE, argv |-> <<>>]
         ELSE [ok |-> TRUE, argv |-> IF in_word THEN Append(acc, cur) ELSE acc]
    ELSE IF in_quote
    THEN IF s[i] = Quote THEN ShlexFrom(s, i + 1, cur, TRUE, FALSE, acc)
         ELSE ShlexFrom(s, i + 1, Append(cur, s[i]), TRUE, TRUE, acc)
    ELSE IF s[i] = Quote THEN ShlexFrom(s, i + 1, cur, TRUE, TRUE, acc)
    ELSE IF s[i] = " "
    THEN IF in_word THEN ShlexFrom(s, i + 1, <<>>, FALSE, FALSE, Append(acc, cur))
         ELSE ShlexFrom(s, i + 1, <<>>, FALSE, FALSE, acc)
    ELSE ShlexFrom(s, i + 1, Append(cur, s[i]), TRUE, FALSE, acc)

shlex_split(s) == ShlexFrom(s, 1, <<>>, FALSE, FALSE, <<>>)

\* The commands the planner proposes and the operator types when editing
Commands == { <<"a">>, <<"a", " ", "b">>, <<"b", " ">>, <<>>, <<" ">>, <<"'", "a">> }

\* What the operator types when asked for a rejection reason
Reasons == { <<>>, <<" ">>, <<" ", "n", "o">> }

\* What becomes of subprocess.run(argv, timeout=self.timeout)
ProcOutcomes == {"exit0", "exit1", "timeout", "not_found", "os_error", "interrupt"}

\* The outcomes in which the process was started
Starts(outcome) == outcome \in {"exit0", "exit1", "timeout", "interrupt"}

Completed(outcome) ==
    IF outcome = "exit0" THEN [returncode |-> 0, stdout |-> <<"out">>, stderr |-> <<>>]
    ELSE [returncode |-> 1, stdout |-> <<>>, stderr |-> <<"err">>]

InterruptedText == <<"User interrupted/cancelled the operation, command rejected.">>

\* A rejection text that leaves the operator's reason out
RejectedTextNoReason(reason) == <<"User rejected the command execution. Reason:">>

RejectedText(reason) == <<"User rejected the command execution. Reason:">> \o reason

EditCancelledText == <<"User cancelled edit and rejected the command execution.">>

TimeoutText == <<"Error: Command execution timed out after", ToString(timeout), "seconds.">>

NotFoundText(argv) ==
    <<"Error: Command not found. Make sure">>
      \o (IF argv # <<>> THEN argv[1] ELSE <<"Unknown">>) \o <<"is installed and in PATH.">>

ExecErrorText == <<"Error executing command:">>

\* An execution that sets the executed flag although the process timed out
ExecuteCountsTimeout(cmd, outcome) ==
    LET parsed == shlex_split(cmd)
    IN IF ~parsed.ok \/ parsed.argv = <<>>
       THEN [started |-> <<>>, out |-> ConsoleToolOutputSchema(ExecErrorText, FALSE)]
       ELSE CASE outcome \in {"exit0", "exit1"} ->
                   [started |-> <<parsed.argv>>,
                    out |-> ConsoleToolOutputSchema(ExitText(Completed(outcome)), TRUE)]
              [] outcome = "timeout" ->
                   [started |-> <<parsed.argv>>,
                    out |-> ConsoleToolOutputSchema(TimeoutText, TRUE)]
              [] outcome = "not_found" ->
                   [started |-> <<>>,
                    out |-> ConsoleToolOutputSchema(NotFoundText(parsed.argv), FALSE)]
              [] outcome = "interrupt" ->
                   [started |-> <<parsed.argv>>,
                    out |-> ConsoleToolOutputSchema(InterruptedText, FALSE)]
              [] OTHER ->
                   [started |-> <<>>, out |-> ConsoleToolOutputSchema(ExecErrorText, FALSE)]

\* The 'y' branch (human_in_the_loop_console_tool.py:45-83, 109-113): the
\* result of executing cmd when the process behaves as outcome says
Execute(cmd, outcome) ==
    LET parsed == shlex_split(cmd)
    IN IF ~parsed.ok \/ parsed.argv = <<>>
       THEN [started |-> <<>>, out |-> ConsoleToolOutputSchema(ExecErrorText, FALSE)]
       ELSE CASE outcome \in {"exit0", "exit1"} ->
                   [started |-> <<parsed.argv>>,
                    out |-> ConsoleToolOutputSchema(ExitText(Completed(outcome)), TRUE)]
              [] outcome = "timeout" ->
                   [started |-> <<parsed.argv>>,
                    out |-> ConsoleToolOutputSchema(TimeoutText, FALSE)]
              [] outcome = "not_found" ->
                   [started |-> <<>>,
                    out |-> ConsoleToolOutputSchema(NotFoundText(parsed.argv), FALSE)]
              [] outcome = "interrupt" ->
                   [started |-> <<parsed.argv>>,
                    out |-> ConsoleToolOutputSchema(InterruptedText, FALSE)]
              [] OTHER ->
                   [started |-> <<>>, out |-> ConsoleToolOutputSchema(ExecErrorText, FALSE)]

\* An edit that leaves the proposed command in place
KeepsOldCommand(old, new_command) == old

\* After 'edit': the command the loop goes on with
EditedCommand(old, new_command) == new_command

\* run, from its first line to the first approval prompt (lines 29-44)
ConsoleCall ==
    /\ tpc = "idle"
    /\ \E cmd \in Commands :
         /\ params' = [tool |-> "HumanInTheLoopConsole", command |-> cmd, reason |-> <<"r">>]
         /\ command' = cmd
         /\ presented' = cmd
    /\ tpc' = "console_approval"
    /\ prompted' = TRUE
    /\ answered' = <<>>
    /\ spawned' = <<>>
    /\ ret' = NoReturn
    /\ fs_at_call' = fs
    /\ last_edit' = None
    /\ happened' = "none"
    /\ prompt_interrupted' = FALSE
    /\ UNCHANGED <<fs, fs_accessed, writes>>
    /\ UNCHANGED <<loopVars, observed, searchVars>>

\* An approval prompt that takes every answer but 'n' and 'edit' for consent
ConsoleAnswerDefaultsToYes ==
    /\ tpc = "console_approval"
    /\ \E raw \in Answers, outcome \in ProcOutcomes :
         LET approval == Approval(raw)
             done == Execute(command, outcome)
         IN /\ answered' = raw
            /\ happened' = IF approval \notin {No, Edit} THEN outcome ELSE "none"
            /\ IF approval = No
               THEN /\ tpc' = "console_reason"
                    /\ UNCHANGED <<spawned, ret>>
               ELSE IF approval = Edit
               THEN /\ tpc' = "console_edit"
                    /\ UNCHANGED <<spawned, ret>>
               ELSE /\ spawned' = spawned \o done.started
                    /\ Finish(Returned(done.out))
    /\ UNCHANGED <<params, command, presented, fs, fs_at_call, fs_accessed, prompted,
                   last_edit, prompt_interrupted, writes>>
    /\ UNCHANGED <<loopVars, observed, searchVars>>

\* The operator answers the approval prompt (lines 44-107)
ConsoleAnswer ==
    /\ tpc = "console_approval"
    /\ \E raw \in Answers, outcome \in ProcOutcomes :
         LET approval == Approval(raw)
             done == Execute(command, outcome)
         IN /\ answered' = raw
            /\ happened' = IF approval = Yes THEN outcome ELSE "none"
            /\ IF approval = Yes
               THEN /\ spawned' = spawned \o done.started
                    /\ Finish(Returned(done.out))
               ELSE IF approval = No
               THEN /\ tpc' = "console_reason"
                    /\ UNCHANGED <<spawned, ret>>
               ELSE IF approval = Edit
               THEN /\ tpc' = "console_edit"
                    /\ UNCHANGED <<spawned, ret>>
               ELSE UNCHANGED <<tpc, spawned, ret>>
    /\ UNCHANGED <<params, command, presented, fs, fs_at_call, fs_accessed, prompted,
                   last_edit, prompt_interrupted, writes>>
    /\ UNCHANGED <<loopVars, observed, searchVars>>

\* The operator gives the reason of a rejection, or none (lines 86-92)
ConsoleReason ==
    /\ tpc = "console_reason"
    /\ \E raw \in Reasons :
         LET reason == IF Strip(raw) = <<>> THEN <<"No reason provided.">> ELSE Strip(raw)
         IN /\ answered' = raw
            /\ Finish(Returned(ConsoleToolOutputSchema(RejectedText(reason), FALSE)))
    /\ UNCHANGED <<params, command, presented, spawned, fs, fs_at_call, fs_accessed,
                   prompted, last_edit, happened, prompt_interrupted, writes>>
    /\ UNCHANGED <<loopVars, observed, searchVars>>

\* The operator types the replacement command, or nothing (lines 95-105)
ConsoleEdit ==
    /\ tpc = "console_edit"
    /\ \E new_command \in Commands :
         /\ answered' = new_command
         /\ IF Strip(new_command) # <<>>
            THEN /\ command' = EditedCommand(command, new_command)
                 /\ presented' = command'
                 /\ last_edit' = Some(new_command)
                 /\ tpc' = "console_approval"
                 /\ UNCHANGED ret
            ELSE /\ Finish(Returned(ConsoleToolOutputSchema(EditCancelledText, FALSE)))
                 /\ UNCHANGED <<command, presented, last_edit>>
    /\ UNCHANGED <<params, spawned, fs, fs_at_call, fs_accessed, prompted, happened,
                   prompt_interrupted, writes>>
    /\ UNCHANGED <<loopVars, observed, searchVars>>

\* An interruption that is not caught and leaves run as an exception
ConsoleInterruptEscapes ==
    /\ tpc \in {"console_approval", "console_reason", "console_edit"}
    /\ Finish(Raised(<<"KeyboardInterrupt">>))
    /\ prompt_interrupted' = TRUE
    /\ UNCHANGED <<params, command, presented, answered, spawned, fs, fs_at_call,
                   fs_accessed, prompted, last_edit, happened, writes>>
    /\ UNCHANGED <<loopVars, observed, searchVars>>

\* EOFError or KeyboardInterrupt at any of the three prompts (lines 109-113)
ConsoleInterrupt ==
    /\ tpc \in {"console_approval", "console_reason", "console_edit"}
    /\ Finish(Returned(ConsoleToolOutputSchema(InterruptedText, FALSE)))
    /\ prompt_interrupted' = TRUE
    /\ UNCHANGED <<params, command, presented, answered, spawned, fs, fs_at_call,
                   fs_accessed, prompted, last_edit, happened, writes>>
    /\ UNCHANGED <<loopVars, observed, searchVars>>

---------------------------------------------------------------------------
(* WebSearchToolWrapper: atomic_heimdall/tools/web_search_tool_wrapper.py  *)

Queries == { <<"q">>, <<>> }

\* run, called with an input object of WebSearchToolInputSchema
SearchCall ==
    /\ tpc = "idle"
    /\ \E q \in Queries, behaviour \in ProviderBehaviours :
         /\ params' = [tool |-> "WebSearchTool", query |-> q]
         /\ happened' = behaviour
         /\ Finish(WebSearchRun(Construct(DeclaredOf(<<"WebSearchTool">>), [query |-> q]),
                                behaviour))
    /\ answered' = <<>>
    /\ fs_at_call' = fs
    /\ prompted' = FALSE
    /\ last_edit' = None
    /\ prompt_interrupted' = FALSE
    /\ UNCHANGED <<command, presented, spawned, fs, fs_accessed, writes>>
    /\ UNCHANGED <<loopVars, observed, searchVars>>

\* The caller takes the result of the run that has ended
ToolReturn ==
    /\ tpc = "returned"
    /\ tpc' = "idle"
    /\ params' = <<>>
    /\ command' = <<>>
    /\ presented' = <<>>
    /\ answered' = <<>>
    /\ spawned' = <<>>
    /\ ret' = NoReturn
    /\ fs_at_call' = fs
    /\ fs_accessed' = FALSE
    /\ prompted' = FALSE
    /\ last_edit' = None
    /\ happened' = "none"
    /\ prompt_interrupted' = FALSE
    /\ UNCHANGED <<fs, writes>>
    /\ UNCHANGED <<loopVars, observed, searchVars>>

---------------------------------------------------------------------------
ToolInit ==
    /\ tpc = "idle"
    /\ params = <<>>
    /\ command = <<>>
    /\ presented = <<>>
    /\ answered = <<>>
    /\ spawned = <<>>
    /\ ret = NoReturn
    /\ fs = InitialFs
    /\ fs_at_call = InitialFs
    /\ fs_accessed = FALSE
    /\ prompted = FALSE
    /\ last_edit = None
    /\ happened = "none"
    /\ prompt_interrupted = FALSE
    /\ writes = 0

NoEvent == [kind |-> "none", text |-> <<>>]

---------------------------------------------------------------------------
(* DuckDuckGoSearchTool (atomic_heimdall/tools/websearch_tool.py)          *)

\* result.get(key)
Get(result, key) == IF key \in DOMAIN result THEN Some(result[key]) ELSE None

\* result.get("url") or result.get("href")
UrlOrHref(result) ==
    IF Truthy(Get(result, "url")) THEN Get(result, "url") ELSE Get(result, "href")

\* The test of line 153.  Python reads it as
\*     result.get("url") or (result.get("href") not in seen_urls)
\* since a comparison binds tighter than or
KeepsResult(result, seen_urls) ==
    Truthy(Get(result, "url")) \/ Get(result, "href") \notin seen_urls

\* The loop of lines 150-155 over what is left of all_results
RECURSIVE Deduplicate(_, _, _)
Deduplicate(results, seen_urls, unique_results) ==
    IF results = <<>> THEN unique_results
    ELSE LET result == Head(results)
         IN IF KeepsResult(result, seen_urls)
            THEN Deduplicate(Tail(results), seen_urls \cup {UrlOrHref(result)},
                             Append(unique_results, result))
            ELSE Deduplicate(Tail(results), seen_urls, unique_results)

\* DuckDuckGoSearchResultItemSchema(url=..., title=..., query=...)
ResultItem(result) ==
    [url |-> UrlOrHref(result).val, title |-> result.title, query |-> result.query]

\* What the provider hands back for one result: the address under url (news,
\* images) or under href (text), a title, and the query added by
\* _fetch_search_results
RawResults ==
    { [url |-> a, title |-> t, query |-> <<"q">>] :
        a \in {<<"a">>, <<"b">>}, t \in {<<"t">>, <<"u">>} }
    \cup { [href |-> a, title |-> t, query |-> <<"q">>] :
        a \in {<<"a">>, <<"b">>}, t \in {<<"t">>, <<"u">>} }

\* run is called: all_results = [] (line 139)
SearchRunCall ==
    /\ spc = "idle"
    /\ spc' = "collecting"
    /\ all_results' = <<>>
    /\ search_output' = <<>>
    /\ UNCHANGED <<loopVars, toolVars, observed>>

\* One more result comes back from _fetch_search_results and is added to
\* all_results (lines 141-147)
SearchCollect ==
    /\ spc = "collecting"
    /\ Len(all_results) < MaxResults
    /\ \E result \in RawResults : all_results' = Append(all_results, result)
    /\ UNCHANGED <<spc, search_output>>
    /\ UNCHANGED <<loopVars, toolVars, observed>>

\* The queries are through: the results are deduplicated, formatted and
\* returned (lines 149-167)
SearchRunReturn ==
    /\ spc = "collecting"
    /\ spc' = "idle"
    /\ LET unique_results == Deduplicate(all_results, {}, <<>>)
       IN search_output' = [i \in 1..Len(unique_results) |->
                               ResultItem(unique_results[i])]
    /\ UNCHANGED all_results
    /\ UNCHANGED <<loopVars, toolVars, observed>>

SearchInit == spc = "idle" /\ all_results = <<>> /\ search_output = <<>>

Init ==
    /\ LoopInit
    /\ ToolInit
    /\ operator_event = NoEvent
    /\ prev_read = None
    /\ prev_write = None
    /\ SearchInit

Next ==
    \/ OperatorExit
    \/ OperatorBlank
    \/ OperatorInterrupt
    \/ OperatorTask
    \/ AgentReturns
    \/ AgentRaises
    \/ AgentInterrupted
    \/ ToolInputInvalid
    \/ DispatchTool
    \/ UnknownTool
    \/ Respond
    \/ NoAction

Spec == Init /\ [][Next]_vars

---------------------------------------------------------------------------
(* The first turn of the AgentLoop with an operator who refuses at every    *)
(* approval prompt: the planner proposes a command or a file write, and the *)
(* tool returns the rejection result its run builds.                        *)

WriteParams ==
    [action |-> "write", path |-> <<"n">>, content |-> Some(<<"c">>), reason |-> <<"r">>]

\* The decisions of a planner that keeps proposing side effects
GatedDecisions ==
    { Decision(Some(<<"HumanInTheLoopConsole">>), Some(ConsoleParams), None),
      Decision(Some(<<"FileManager">>), Some(WriteParams), None) }

\* What the operator types when asked why the command is refused
StatedReason == <<"n", "o">>

\* tool_instance.run(tool_input) when the operator answers 'n'
\* (human_in_the_loop_console_tool.py:85-92, file_manager_tool.py:129-130)
OperatorRejects(tool_name, tool_input) ==
    IF tool_name = <<"HumanInTheLoopConsole">>
    THEN {Returned(ConsoleToolOutputSchema(RejectedText(StatedReason), FALSE))}
    ELSE {Returned(FileManagerOutputSchema(
             RejectedStatus(tool_input.action, tool_input.path), None, FALSE))}

FirstTask == turn = 0 /\ OperatorTask

PlannerProposes == AgentReturnsFrom(GatedDecisions)

RejectedDispatch == Dispatch(OperatorRejects(agent_output.tool_to_use.val, ToolInput))

GateNext ==
    \/ FirstTask
    \/ PlannerProposes
    \/ RejectedDispatch

GateSpec == Init /\ [][GateNext]_vars

---------------------------------------------------------------------------
(* The AgentLoop seen from the main prompt: what the operator types or     *)
(* interrupts is recorded, and no decision of the planner runs a tool      *)

PromptDecisions ==
    { Decision(None, None, Some(<<"hi">>)),
      Decision(None, None, None),
      Decision(Some(<<"NoSuchTool">>), None, None) }

\* console.input returns a line (main.py:151)
OperatorTypes ==
    /\ pc = "AwaitingOperatorInput"
    /\ \E text \in OperatorInputs :
         /\ HandleInput(text)
         /\ operator_event' = [kind |-> "typed", text |-> text]
    /\ UNCHANGED <<toolVars, prev_read, prev_write, searchVars>>

\* KeyboardInterrupt or EOFError while console.input waits, KeyboardInterrupt
\* while heimdall_agent.run is under way (main.py:283-288)
OperatorInterrupts ==
    /\ pc \in {"AwaitingOperatorInput", "Planning"}
    /\ EndSession
    /\ operator_event' = [kind |-> "interrupt", text |-> <<>>]
    /\ UNCHANGED <<toolVars, prev_read, prev_write, searchVars>>

PlannerAnswers == AgentReturnsFrom(PromptDecisions)

PromptNext ==
    \/ OperatorTypes
    \/ OperatorInterrupts
    \/ PlannerAnswers
    \/ AgentRaises
    \/ UnknownTool
    \/ Respond
    \/ NoAction

PromptSpec == Init /\ [][PromptNext]_vars

---------------------------------------------------------------------------
(* The file tool seen from its caller: reads are remembered until a later  *)
(* request asks to change the file they read.  The disk works.             *)

\* The paths the caller asks for: the file at the root in two spellings, a
\* file that is not there, and the root itself
ReadPaths == { <<"w">>, <<".", Slash, "w">>, <<"n">>, <<".">> }

\* What is remembered after a request: a read of a confined path is
\* remembered with its result, counted when it repeats the remembered one; a
\* write or an append forgets the read of the file it asks to change
Remember(action, path, out) ==
    IF action = "read"
    THEN Some([path |-> path, out |-> out,
               reads |-> IF prev_read.some /\ prev_read.val.path = path
                         THEN 2 ELSE 1])
    ELSE IF /\ prev_read.some
            /\ resolve_path(prev_read.val.path) = resolve_path(path)
    THEN None
    ELSE prev_read

\* The caller asks for a read, a write or an append
CallerRequest ==
    /\ tpc = "idle"
    /\ \E action \in {"read", "write", "append"}, path \in ReadPaths :
         /\ FileManagerRun(action, path, Some(<<"c">>), "ok")
         /\ prev_read' = Remember(action, path, ret'.out)
         /\ prev_write' = IF action = "read" THEN prev_write ELSE None
    /\ UNCHANGED <<loopVars, operator_event, searchVars>>

\* The operator answers the caller's write or append; a performed one is
\* remembered with the file it went to and with what the file held before
CallerAnswer ==
    /\ tpc = "file_confirm"
    /\ \E raw \in Answers :
         /\ FileConfirmed(raw, "ok")
         /\ LET safe_abs_path == resolve_path(params.path).val
            IN prev_write' =
                 IF tpc' = "returned" /\ ret'.out.action_performed
                 THEN Some([action |-> params.action, file |-> safe_abs_path,
                            content |-> params.content.val,
                            held |-> IF isfile(fs, safe_abs_path)
                                     THEN fs[safe_abs_path].data ELSE <<>>])
                 ELSE prev_write
    /\ UNCHANGED <<loopVars, operator_event, prev_read, searchVars>>

ReadNext ==
    \/ CallerRequest
    \/ CallerAnswer
    \/ FileConfirmInterrupt
    \/ ToolReturn

ReadSpec == Init /\ [][ReadNext]_vars

FatalErrorText(e) == <<"FATAL ERROR in main loop:">> \o e

\* The FATAL ERROR entries of memory
FatalEntries ==
    { i \in 1..Len(memory) :
        StartsWith(memory[i].text, <<"FATAL ERROR in main loop:">>) }

\* An outer handler that leaves the loop after recording the error (the break
\* that main.py:300 keeps as a comment)
UnexpectedErrorEndsSession ==
    /\ pc \in {"AwaitingOperatorInput", "Handling"}
    /\ Cardinality(FatalEntries) < MaxFaults
    /\ \E e \in {<<"RuntimeError">>, <<"ValueError">>} :
         /\ memory' = add_message(memory, "system", FatalErrorText(e))
         /\ operator_event' = [kind |-> "fault", text |-> e]
    /\ pc' = "Done"
    /\ agent_output' = NoDecision
    /\ UNCHANGED <<current_task, last_tool_result_str, step_count, agent_input, turn,
                   planner_log, tool_runs, shown, unknown_log, response_dropped>>
    /\ UNCHANGED <<toolVars, prev_read, prev_write, searchVars>>

\* An exception that is neither KeyboardInterrupt nor EOFError is raised by
\* console.input or while a decision is handled outside the inner handlers,
\* and reaches the outer handler (main.py:289-300): it is recorded, and the
\* outer loop goes on with the next prompt
UnexpectedError ==
    /\ pc \in {"AwaitingOperatorInput", "Handling"}
    /\ Cardinality(FatalEntries) < MaxFaults
    /\ \E e \in {<<"RuntimeError">>, <<"ValueError">>} :
         /\ memory' = add_message(memory, "system", FatalErrorText(e))
         /\ operator_event' = [kind |-> "fault", text |-> e]
    /\ pc' = "AwaitingOperatorInput"
    /\ agent_output' = NoDecision
    /\ UNCHANGED <<current_task, last_tool_result_str, step_count, agent_input, turn,
                   planner_log, tool_runs, shown, unknown_log, response_dropped>>
    /\ UNCHANGED <<toolVars, prev_read, prev_write, searchVars>>

\* The AgentLoop of PromptSpec with such exceptions
FaultNext == PromptNext \/ UnexpectedError

FaultSpec == Init /\ [][FaultNext]_vars

\* The AgentLoop with a planner that always returns and tools that always
\* return: the decisions are a console command, a response, and an unknown tool
BudgetDecisions ==
    { Decision(Some(<<"HumanInTheLoopConsole">>), Some(ConsoleParams), None),
      Decision(None, None, Some(<<"hi">>)),
      Decision(Some(<<"NoSuchTool">>), None, None) }

PlannerDecides == AgentReturnsFrom(BudgetDecisions)

BudgetNext ==
    \/ OperatorTask
    \/ OperatorExit
    \/ PlannerDecides
    \/ DispatchTool
    \/ UnknownTool
    \/ Respond

\* The planner call returns, and main() goes on from a decision it holds; the
\* operator is free to stay at the prompt
BudgetSpec ==
    /\ Init
    /\ [][BudgetNext]_vars
    /\ WF_vars(PlannerDecides)
    /\ WF_vars(DispatchTool \/ UnknownTool \/ Respond)

\* The two tools that ask for approval, with an operator who does not go on
\* for ever answering with invalid input or with edits
ApprovalNext ==
    \/ ConsoleCall
    \/ ConsoleAnswer
    \/ ConsoleReason
    \/ ConsoleEdit
    \/ ConsoleInterrupt
    \/ CallerRequest
    \/ CallerAnswer
    \/ FileConfirmInterrupt
    \/ ToolReturn

\* At a prompt, the operator answers 'y' or 'n', gives the reason, leaves the
\* edit empty, or interrupts
OperatorSettles ==
    /\ tpc \in {"console_approval", "console_reason", "console_edit", "file_confirm"}
    /\ ApprovalNext
    /\ \/ tpc' = "returned"
       \/ tpc = "console_approval" /\ tpc' = "console_reason"

ApprovalSpec == Init /\ [][ApprovalNext]_vars /\ WF_vars(OperatorSettles)

\* The search tool run on its own, as its example usage does
SearchNext == SearchRunCall \/ SearchCollect \/ SearchRunReturn

SearchSpec == Init /\ [][SearchNext]_vars

\* The file tool of the smol variant, called as the agent of smol_heimdall
\* calls it
SmolNext ==
    \/ SmolRequest
    \/ SmolConfirmAnswer
    \/ SmolConfirmInterrupt
    \/ ToolReturn

SmolSpec == Init /\ [][SmolNext]_vars

ToolNext ==
    \/ FileManagerCall
    \/ FileConfirmAnswer
    \/ FileConfirmInterrupt
    \/ ConsoleCall
    \/ ConsoleAnswer
    \/ ConsoleReason
    \/ ConsoleEdit
    \/ ConsoleInterrupt
    \/ SearchCall
    \/ ToolReturn

ToolSpec == Init /\ [][ToolNext]_vars

---------------------------------------------------------------------------
(* Properties of the AgentLoop, checked under Spec                         *)

\* The index of the latest user entry of memory: where the current turn begins
RECURSIVE LastUserIndex(_, _)
LastUserIndex(mem, i) ==
    IF i = 0 THEN 0
    ELSE IF mem[i].role = "user" THEN i
    ELSE LastUserIndex(mem, i - 1)

\* The memory entries of the current turn that record a tool's normal return
TurnToolOutputs ==
    { i \in (LastUserIndex(memory, Len(memory)) + 1)..Len(memory) :
        \E tool_name \in ToolNames :
            /\ memory[i].role = "system"
            /\ StartsWith(memory[i].text, <<"Tool">> \o tool_name \o <<"output:">>) }

\* The planner calls of the current turn
TurnCalls == { j \in 1..Len(planner_log) : planner_log[j].turn = turn }

\* Every planner call of the current turn was answered by a registered tool
\* that ran and returned normally
AllStepsRanTools == turn >= 1 /\ Cardinality(TurnToolOutputs) = Cardinality(TurnCalls)

\* C1: a turn in which every step runs a registered tool that returns normally
\* makes exactly MAX_AUTO_STEPS planner calls and exactly MAX_AUTO_STEPS tool
\* runs, then appends the note about the reached maximum and waits for the
\* operator (or the session was ended from there); no turn makes more than
\* MAX_AUTO_STEPS planner calls.
C1_HaltsAtMaxAutoSteps ==
    /\ Cardinality(TurnCalls) <= MAX_AUTO_STEPS
    /\ AllStepsRanTools =>
         /\ pc \in {"AwaitingOperatorInput", "Done"}
         /\ Cardinality(TurnCalls) = MAX_AUTO_STEPS
         /\ tool_runs = MAX_AUTO_STEPS
         /\ step_count = MAX_AUTO_STEPS
         /\ Last(memory) = Message("system", MaxStepsText)

C1_Witness ==
    /\ pc = "AwaitingOperatorInput"
    /\ AllStepsRanTools
    /\ tool_runs = MAX_AUTO_STEPS

\* The decision being handled names a tool that is not registered
UnknownToolNamed ==
    /\ pc = "Handling"
    /\ Truthy(agent_output.tool_to_use)
    /\ agent_output.tool_to_use.val \notin ToolNames

\* The entries of mem2 behind those of mem1
Appended(mem1, mem2) == SubSeq(mem2, Len(mem1) + 1, Len(mem2))

\* C7: handling a decision that names an unregistered tool runs no tool, makes
\* no planner call, appends exactly one system entry documenting the unknown
\* name (behind it at most the note about the step bound), and leaves the loop
\* waiting for operator input, the session not ended; the next planner call
\* belongs to a new turn.
C7_UnknownToolRecovery ==
    [][ /\ UnknownToolNamed =>
            LET name == agent_output.tool_to_use.val
                new == Appended(memory, memory')
            IN /\ tool_runs' = tool_runs
               /\ planner_log' = planner_log
               /\ pc' = "AwaitingOperatorInput"
               /\ SubSeq(memory', 1, Len(memory)) = memory
               /\ Len(new) >= 1
               /\ new[1] = Message("system", HallucinatedText(name))
               /\ Cardinality({ i \in 1..Len(new) :
                                  new[i].text = HallucinatedText(name) }) = 1
               /\ \A i \in 2..Len(new) : new[i] = Message("system", MaxStepsText)
        /\ (pc = "AwaitingOperatorInput" /\ planner_log' # planner_log) => turn' = turn + 1
      ]_vars

C7_Witness ==
    /\ pc = "AwaitingOperatorInput"
    /\ unknown_log # <<>>
    /\ Last(unknown_log).at = Len(planner_log)
    /\ \E i \in 1..Len(memory) :
         memory[i] = Message("system", HallucinatedText(<<"NoSuchTool">>))

\* C8 (as the claim states it): once the session has ended, every unknown-tool
\* event that was followed by a planner call has had its synthesized error
\* supplied as previous_tool_result to one of those later calls.
C8_ErrorFedBack ==
    pc = "Done" =>
        \A k \in 1..Len(unknown_log) :
            Len(planner_log) > unknown_log[k].at =>
                \E j \in (unknown_log[k].at + 1)..Len(planner_log) :
                    planner_log[j].input.previous_tool_result = Some(unknown_log[k].error)

\* The decision being handled carries a tool name and a response text
BothPopulated ==
    /\ pc = "Handling"
    /\ Truthy(agent_output.tool_to_use)
    /\ Truthy(agent_output.response_to_user)

\* C9: handling a decision that carries both a tool name and a response takes
\* the tool path: nothing is shown to the operator, no assistant entry is
\* appended, and the tool is dispatched (run, or refused for its parameters)
\* when registered and reported as unknown when not.
C9_ToolPathWins ==
    [][ BothPopulated =>
            LET name == agent_output.tool_to_use.val
                new == Appended(memory, memory')
            IN /\ shown' = shown
               /\ \A i \in 1..Len(new) : new[i].role # "assistant"
               /\ Len(new) >= 1
               /\ IF name \in ToolNames
                  THEN \/ /\ tool_runs' = tool_runs + 1
                          /\ \/ StartsWith(new[1].text, <<"Tool">> \o name \o <<"output:">>)
                             \/ StartsWith(new[1].text, <<"Error running tool">> \o name)
                       \/ /\ tool_runs' = tool_runs
                          /\ new[1].text = ToolErrorText(name, <<"ValidationError">>)
                  ELSE /\ tool_runs' = tool_runs
                       /\ new[1].text = HallucinatedText(name)
      ]_vars

C9_Witness ==
    /\ pc = "Planning"
    /\ response_dropped
    /\ step_count >= 2
    /\ shown = 0
    /\ \E i \in 1..Len(memory) :
         StartsWith(memory[i].text, <<"Tool", "HumanInTheLoopConsole", "output:">>)
    /\ \A i \in 1..Len(memory) : memory[i].role # "assistant"

---------------------------------------------------------------------------
(* Properties of the tools, checked under ToolSpec                         *)

\* A run of the file tool is under way or has just ended
FileRun == tpc \in {"file_confirm", "returned"} /\ params.tool = "FileManager"

\* A run of the console tool is under way or has just ended
ConsoleRun ==
    /\ tpc \in {"console_approval", "console_reason", "console_edit", "returned"}
    /\ params.tool = "HumanInTheLoopConsole"

\* Where the requested path leads, resolved against the root and normalized
Resolution == normpath(join(working_dir, params.path))

\* C2 (as the claim states it): a read, list, write or append whose path
\* resolves to neither the root nor a descendant of it ends at once in a
\* failure result, action_performed false, with no filesystem access, no
\* change of the filesystem and no approval prompt.
C2_PathConfinement ==
    (/\ FileRun
     /\ params.action \in {"read", "list", "write", "append"}
     /\ ~InsideRoot(Resolution))
    => /\ tpc = "returned"
       /\ ret.kind = "returned"
       /\ ~ret.out.action_performed
       /\ ~fs_accessed
       /\ ~prompted
       /\ fs = fs_at_call

\* The operator's latest answer rejects, or the prompt was interrupted
Rejected == Approval(answered) = No \/ prompt_interrupted

\* C3 (as the claim states it): a write or append on a confined path leaves the
\* filesystem as it was while the approval prompt is open, and after a
\* rejection at the prompt the filesystem is as it was when run began,
\* action_performed is false and the status tells of the rejection.
C3_NoTouchBeforeApproval ==
    (/\ FileRun
     /\ params.action \in {"write", "append"}
     /\ InsideRoot(Resolution)
     /\ prompted)
    => /\ tpc = "file_confirm" => fs = fs_at_call
       /\ (tpc = "returned" /\ Rejected) =>
             /\ fs = fs_at_call
             /\ ret.kind = "returned"
             /\ ~ret.out.action_performed
             /\ ret.out.status = RejectedStatus(params.action, params.path)

\* C4: in a run of the console tool a process is started at most once, in the
\* step in which the operator answers 'y' (in any letter case, blanks around
\* it) to the approval prompt, with the words of the command printed last, and
\* run ends with that step.
C4_SpawnOnlyThroughGate ==
    [][ (spawned' # spawned /\ spawned' # <<>>) =>
            /\ spawned = <<>>
            /\ Len(spawned') = 1
            /\ tpc = "console_approval"
            /\ Strip(Lower(answered')) = <<"y">>
            /\ shlex_split(presented).ok
            /\ spawned'[1] = shlex_split(presented).argv
            /\ tpc' = "returned"
      ]_vars

C4_Witness ==
    /\ ConsoleRun
    /\ tpc = "returned"
    /\ Len(spawned) = 1
    /\ ~last_edit.some
    /\ spawned[1] = shlex_split(params.command).argv
    /\ ret.out.executed

\* C5: a non-blank replacement typed after 'edit' starts no process and leads
\* back to the approval prompt with the replacement printed; a blank one ends
\* run in a rejection, executed false; and a process started after an edit
\* runs the words of the latest replacement.
C5_EditThenApprove ==
    [][ /\ (tpc = "console_edit" /\ ~prompt_interrupted') =>
              IF Strip(answered') = <<>>
              THEN /\ tpc' = "returned"
                   /\ ret'.kind = "returned"
                   /\ ~ret'.out.executed
                   /\ ret'.out.result = EditCancelledText
                   /\ spawned' = spawned
              ELSE /\ tpc' = "console_approval"
                   /\ presented' = answered'
                   /\ last_edit' = Some(answered')
                   /\ ret' = NoReturn
                   /\ spawned' = spawned
        /\ (spawned' # spawned /\ spawned' # <<>> /\ last_edit.some) =>
              spawned'[1] = shlex_split(last_edit.val).argv
      ]_vars

C5_Witness ==
    /\ ConsoleRun
    /\ tpc = "returned"
    /\ last_edit.some
    /\ Len(spawned) = 1
    /\ spawned[1] = shlex_split(last_edit.val).argv
    /\ spawned[1] # shlex_split(params.command).argv
    /\ ret.out.executed

\* The files of a filesystem and what they hold
FilesOf(f) == [q \in { x \in DOMAIN f : f[x].kind = "file" } |-> f[q]]

\* C6: a run in which a prompt was interrupted returns a result that tells of
\* the rejection or cancellation; for the console tool executed is false and
\* no process was started, for the file tool action_performed is false and no
\* file was created or changed.
C6_InterruptRejects ==
    (tpc = "returned" /\ prompt_interrupted) =>
        /\ ret.kind = "returned"
        /\ params.tool \in {"HumanInTheLoopConsole", "FileManager"}
        /\ params.tool = "HumanInTheLoopConsole" =>
              /\ ~ret.out.executed
              /\ ret.out.result = InterruptedText
              /\ spawned = <<>>
        /\ params.tool = "FileManager" =>
              /\ ~ret.out.action_performed
              /\ ret.out.status = RejectedStatus(params.action, params.path)
              /\ FilesOf(fs) = FilesOf(fs_at_call)

C6_Witness ==
    /\ tpc = "returned"
    /\ prompt_interrupted
    /\ params.tool = "HumanInTheLoopConsole"
    /\ Approval(answered) = No
    /\ ret.kind = "returned"

\* The output schema each tool declares
OutputSchemaOf(tool) ==
    CASE tool = "HumanInTheLoopConsole" -> "ConsoleToolOutputSchema"
      [] tool = "FileManager" -> "FileManagerOutputSchema"
      [] OTHER -> "WebSearchToolOutputSchema"

\* C10 (as the claim states it): every run of a registered tool on an input of
\* its input schema ends by returning an object of the tool's output schema,
\* never by raising.
C10_ToolContract ==
    tpc = "returned" =>
        /\ ret.kind = "returned"
        /\ ret.out.schema = OutputSchemaOf(params.tool)

\* C11 (as the claim states it): a run of the search tool on an input {query}
\* returns; with the provider's answer it returns success true and the answer
\* text, and when the provider gives nothing, raises or could not be imported
\* it returns success false and a non-empty explanation.
C11_SearchResultMapping ==
    (tpc = "returned" /\ params.tool = "WebSearchTool") =>
        /\ ret.kind = "returned"
        /\ IF happened = "answer"
           THEN /\ ret.out.success
                /\ ret.out.final_answer = Some(<<"markup of">> \o params.query)
           ELSE /\ ~ret.out.success
                /\ ret.out.final_answer.some
                /\ ret.out.final_answer.val # <<>>

\* C12: after the operator's 'y', a command that cannot be parsed, a process
\* that times out, an executable that is missing and any other error of the
\* execution each end run in a returned result, executed false, whose text
\* names the failure; a reason typed after 'n' ends run in a returned result,
\* executed false, whose text states the rejection and the reason, or
\* 'No reason provided.' when the reason is blank.
C12_ConsoleFailuresAreValues ==
    [][ /\ (/\ tpc = "console_approval"
            /\ ~prompt_interrupted'
            /\ Strip(Lower(answered')) = <<"y">>) =>
              LET parsed == shlex_split(command)
                  runs == parsed.ok /\ parsed.argv # <<>>
              IN /\ tpc' = "returned"
                 /\ ret'.kind = "returned"
                 /\ ~runs =>
                       /\ ~ret'.out.executed
                       /\ ret'.out.result = <<"Error executing command:">>
                 /\ (runs /\ happened' = "timeout") =>
                       /\ ~ret'.out.executed
                       /\ ret'.out.result[1] = "Error: Command execution timed out after"
                 /\ (runs /\ happened' = "not_found") =>
                       /\ ~ret'.out.executed
                       /\ ret'.out.result[1] = "Error: Command not found. Make sure"
                 /\ (runs /\ happened' = "os_error") =>
                       /\ ~ret'.out.executed
                       /\ ret'.out.result = <<"Error executing command:">>
        /\ (tpc = "console_reason" /\ ~prompt_interrupted') =>
              /\ tpc' = "returned"
              /\ ret'.kind = "returned"
              /\ ~ret'.out.executed
              /\ ret'.out.result =
                    <<"User rejected the command execution. Reason:">>
                      \o (IF Strip(answered') = <<>> THEN <<"No reason provided.">>
                          ELSE Strip(answered'))
      ]_vars

C12_Witness ==
    /\ ConsoleRun
    /\ tpc = "returned"
    /\ Approval(answered) = <<"n", "o">>
    /\ ~prompt_interrupted
    /\ ~ret.out.executed
    /\ ret.out.result = <<"User rejected the command execution. Reason:", "n", "o">>

---------------------------------------------------------------------------
(* Properties of the AgentLoop with a refusing operator, under GateSpec    *)

\* The serialized result of the refused tool named by the decision at hand
RejectionJson ==
    IF agent_output.tool_to_use.val = <<"HumanInTheLoopConsole">>
    THEN <<"{result:", "User rejected the command execution. Reason:", "n", "o",
           "executed:", "false", "}">>
    ELSE <<"{status:", "User rejected the", "write", "operation on", "n",
           "content:", "null", "action_performed:", "false", "}">>

\* C15: when the operator refuses the proposed command or file write, the
\* tool's rejection result (with the stated reason, for the console tool) is
\* appended to memory as that tool's output, the session goes on, and below the
\* step bound the next planner call is made in the same turn with the
\* rejection result as previous_tool_result; at the step bound the turn ends
\* with the note about the bound.
C15_RejectionIsNormalBranch ==
    [][ (pc = "Handling" /\ Truthy(agent_output.tool_to_use)) =>
            LET name == agent_output.tool_to_use.val
                new == Appended(memory, memory')
            IN /\ SubSeq(memory', 1, Len(memory)) = memory
               /\ Len(new) >= 1
               /\ new[1] = Message("system", <<"Tool">> \o name \o <<"output:">>
                                               \o RejectionJson)
               /\ tool_runs' = tool_runs + 1
               /\ IF step_count < MAX_AUTO_STEPS
                  THEN /\ Len(new) = 1
                       /\ pc' = "Planning"
                       /\ turn' = turn
                       /\ step_count' = step_count + 1
                       /\ Len(planner_log') = Len(planner_log) + 1
                       /\ agent_input'.previous_tool_result = Some(RejectionJson)
                       /\ Last(planner_log').input = agent_input'
                  ELSE /\ pc' = "AwaitingOperatorInput"
                       /\ new = <<new[1], Message("system", MaxStepsText)>>
      ]_vars

C15_Witness ==
    /\ pc = "Planning"
    /\ step_count = 3
    /\ agent_input.previous_tool_result.some
    /\ agent_input.previous_tool_result.val[2] = "User rejected the"
    /\ \E i \in 1..Len(memory) :
         /\ memory[i].role = "system"
         /\ StartsWith(memory[i].text, <<"Tool", "HumanInTheLoopConsole", "output:", "{result:",
                                         "User rejected the command execution. Reason:",
                                         "n", "o">>)

---------------------------------------------------------------------------
(* Properties of the branches of the AgentLoop, checked under Spec         *)

\* The planner call at hand ends without a decision and without ending the
\* session: heimdall_agent.run raised an Exception
PlannerFails == pc = "Planning" /\ pc' \notin {"Handling", "Done"}

\* The entries appended by a step that leaves the inner loop: entry, and behind
\* it the note about the step bound when the bound was reached
LeavesLoopWith(entry) ==
    /\ SubSeq(memory', 1, Len(memory)) = memory
    /\ Appended(memory, memory') =
         IF step_count >= MAX_AUTO_STEPS
         THEN <<entry, Message("system", MaxStepsText)>>
         ELSE <<entry>>

\* A planner call made while the loop waits for the operator opens a new turn
NextCallOpensTurn ==
    (pc = "AwaitingOperatorInput" /\ planner_log' # planner_log) =>
        /\ turn' = turn + 1
        /\ Len(planner_log') = Len(planner_log) + 1
        /\ Last(planner_log').turn = turn + 1
        /\ Last(planner_log').step = 1

\* C14: when the planner call raises an exception, at any step of the turn, the
\* loop appends exactly one system entry describing the error (behind it only
\* the note about the step bound, at the last step), runs no tool, makes no
\* further planner call in that turn, and waits for operator input with the
\* session not ended; the operator's next task opens a new turn.
C14_PlannerFailure ==
    [][ /\ PlannerFails =>
              /\ LeavesLoopWith(Message("system",
                                        InternalErrorText(<<"planner failed">>)))
              /\ tool_runs' = tool_runs
              /\ planner_log' = planner_log
              /\ turn' = turn
              /\ pc' = "AwaitingOperatorInput"
        /\ NextCallOpensTurn
      ]_vars

C14_Witness ==
    /\ turn = 2
    /\ pc = "Handling"
    /\ \E i \in 1..Len(memory) :
         /\ memory[i].role = "system"
         /\ StartsWith(memory[i].text, <<"Internal Error during agent run:">>)
         /\ i < LastUserIndex(memory, Len(memory))
         /\ memory[i - 1].role = "system"
         /\ StartsWith(memory[i - 1].text, <<"Tool">>)

\* The decision at hand carries a response and no tool
ResponseOnly ==
    /\ pc = "Handling"
    /\ ~Truthy(agent_output.tool_to_use)
    /\ Truthy(agent_output.response_to_user)

\* The decision at hand carries neither a tool nor a response
NeitherPopulated ==
    /\ pc = "Handling"
    /\ ~Truthy(agent_output.tool_to_use)
    /\ ~Truthy(agent_output.response_to_user)

\* C16: handling a decision with a response and no tool appends exactly one
\* assistant entry whose text is that response (behind it only the system note
\* about the step bound, at the last step), runs no tool, makes no further
\* planner call in that turn, and waits for operator input.
C16_ResponsePath ==
    [][ /\ ResponseOnly =>
              /\ LeavesLoopWith(Message("assistant", agent_output.response_to_user.val))
              /\ Cardinality({ i \in 1..Len(memory') : memory'[i].role = "assistant" })
                   = Cardinality({ i \in 1..Len(memory) : memory[i].role = "assistant" }) + 1
              /\ tool_runs' = tool_runs
              /\ planner_log' = planner_log
              /\ turn' = turn
              /\ pc' = "AwaitingOperatorInput"
        /\ NextCallOpensTurn
      ]_vars

C16_Witness ==
    /\ pc = "AwaitingOperatorInput"
    /\ step_count = 2
    /\ Len(memory) >= 3
    /\ Last(memory) = Message("assistant", <<"hi">>)
    /\ memory[Len(memory) - 1].role = "system"
    /\ tool_runs = 1
    /\ Len(planner_log) = 2

\* C17: handling a decision with neither a tool nor a response appends exactly
\* one system entry noting that there was no actionable output (behind it only
\* the note about the step bound, at the last step), appends no assistant
\* entry, runs no tool, leaves the inner loop and waits for operator input, the
\* session not ended.
C17_NoOpDecision ==
    [][ /\ NeitherPopulated =>
              /\ LeavesLoopWith(Message("system", NoActionText))
              /\ \A i \in (Len(memory) + 1)..Len(memory') : memory'[i].role # "assistant"
              /\ tool_runs' = tool_runs
              /\ planner_log' = planner_log
              /\ turn' = turn
              /\ shown' = shown
              /\ pc' = "AwaitingOperatorInput"
        /\ (pc = "AwaitingOperatorInput" /\ pc' = "Planning") => turn' = turn + 1
      ]_vars

C17_Witness ==
    /\ pc = "Planning"
    /\ turn = 2
    /\ Len(memory) >= 2
    /\ memory[Len(memory) - 1] = Message("system", NoActionText)
    /\ Last(memory).role = "user"

\* The decision at hand names a registered tool, and this step runs it without
\* recording an error of the run
ToolRunReturns ==
    /\ pc = "Handling"
    /\ Truthy(agent_output.tool_to_use)
    /\ agent_output.tool_to_use.val \in ToolNames
    /\ tool_runs' = tool_runs + 1
    /\ ~\E i \in (Len(memory) + 1)..Len(memory') :
           StartsWith(memory'[i].text, <<"Error running tool">>)

\* What the tools of the loop model serialize to when their run returns: the
\* console tool after a process that printed 'out' and exited with 0
SerializedResults ==
    { <<"{result:", "Exit Code:", "0", "--- STDOUT ---", "out", "executed:", "true", "}">> }

\* C18: when the decision names a registered tool and its run returns, the
\* loop appends exactly one system entry made of the tool's name and the
\* serialized result; then, below MAX_AUTO_STEPS steps, the next planner call
\* is made in the same turn with no operator input in between, and at
\* MAX_AUTO_STEPS steps the turn ends with the note about the bound.
C18_ToolDispatchStep ==
    [][ ToolRunReturns =>
            LET name == agent_output.tool_to_use.val
                new == Appended(memory, memory')
            IN /\ SubSeq(memory', 1, Len(memory)) = memory
               /\ Len(new) >= 1
               /\ \E r \in SerializedResults :
                    /\ new[1] = Message("system", <<"Tool">> \o name \o <<"output:">> \o r)
                    /\ step_count < MAX_AUTO_STEPS =>
                         agent_input'.previous_tool_result = Some(r)
               /\ \A i \in 2..Len(new) :
                    ~\E n \in ToolNames : StartsWith(new[i].text, <<"Tool">> \o n)
               /\ IF step_count < MAX_AUTO_STEPS
                  THEN /\ Len(new) = 1
                       /\ pc' = "Planning"
                       /\ turn' = turn
                       /\ step_count' = step_count + 1
                       /\ planner_log' = Append(planner_log,
                                                PlannerCall(turn, step_count + 1, agent_input'))
                  ELSE /\ pc' = "AwaitingOperatorInput"
                       /\ planner_log' = planner_log
                       /\ new = <<new[1], Message("system", MaxStepsText)>>
      ]_vars

C18_Witness ==
    /\ pc = "Planning"
    /\ step_count = 2
    /\ tool_runs = 1
    /\ Len(planner_log) = 2
    /\ planner_log[1].turn = planner_log[2].turn
    /\ Last(memory) = Message("system",
                              <<"Tool", "HumanInTheLoopConsole", "output:", "{result:",
                                "Exit Code:", "0", "--- STDOUT ---", "out",
                                "executed:", "true", "}">>)

IsUserEntry(m) == m.role = "user"

\* The user entries of the memory, in order: one per operator task
UserEntries == SelectSeq(memory, IsUserEntry)

\* C19: at the first planner call of a turn the operator's input text is
\* already in memory as a user entry, the newest one, and that planner call is
\* given the original text as task; the planner call of every later step of
\* the turn is given the fixed continuation phrase.
C19_TaskTextPerStep ==
    pc = "Planning" =>
        /\ Last(planner_log) = PlannerCall(turn, step_count, agent_input)
        /\ step_count \in 1..MAX_AUTO_STEPS
        /\ IF step_count = 1
           THEN /\ Last(memory) = Message("user", current_task)
                /\ current_task \in OperatorInputs
                /\ agent_input.task = current_task
                /\ agent_input.task # ContinuationPhrase
           ELSE agent_input.task = ContinuationPhrase

C19_Witness ==
    /\ turn = 2
    /\ Len(planner_log) >= 2
    /\ planner_log[Len(planner_log) - 1].turn = 2
    /\ planner_log[Len(planner_log) - 1].step = 1
    /\ planner_log[Len(planner_log) - 1].input.task = <<"g", "o", " ">>
    /\ Last(planner_log).turn = 2
    /\ Last(planner_log).step = 2
    /\ Last(planner_log).input.task = ContinuationPhrase
    /\ UserEntries = << Message("user", <<"g", "o", " ">>), Message("user", <<"g", "o", " ">>) >>

\* C20: the previous_tool_result given to the planner is empty at step 1 of
\* every turn; at step k > 1 it is exactly the serialized result that step
\* k - 1 of the same turn has just recorded as the output of a registered tool;
\* once handed to a planner call the handoff is cleared, so that no result
\* reaches a second call or a later turn.
C20_OneShotHandoff ==
    /\ pc = "Planning" =>
          /\ Last(planner_log) = PlannerCall(turn, step_count, agent_input)
          /\ IF step_count = 1
             THEN agent_input.previous_tool_result = None
             ELSE /\ agent_input.previous_tool_result.some
                  /\ Len(planner_log) > 1
                  /\ planner_log[Len(planner_log) - 1].turn = turn
                  /\ planner_log[Len(planner_log) - 1].step = step_count - 1
                  /\ \E n \in ToolNames :
                       Last(memory) =
                         Message("system", <<"Tool">> \o n \o <<"output:">>
                                             \o agent_input.previous_tool_result.val)
    /\ pc \in {"Planning", "Handling"} => last_tool_result_str = None

C20_Witness ==
    /\ turn = 2
    /\ pc = "Planning"
    /\ step_count = 1
    /\ agent_input.previous_tool_result = None
    /\ \E j \in 1..Len(planner_log) :
         /\ planner_log[j].turn = 1
         /\ planner_log[j].step = MAX_AUTO_STEPS
         /\ planner_log[j].input.previous_tool_result.some
    /\ \E i \in 1..Len(memory) : memory[i] = Message("system", MaxStepsText)

\* The decision at hand names a registered tool
RegisteredToolNamed ==
    /\ pc = "Handling"
    /\ Truthy(agent_output.tool_to_use)
    /\ agent_output.tool_to_use.val \in ToolNames

\* This step records the normal return of the tool named by the decision
RecordsToolOutput ==
    /\ Len(memory') > Len(memory)
    /\ StartsWith(memory'[Len(memory) + 1].text,
                  <<"Tool">> \o agent_output.tool_to_use.val \o <<"output:">>)

\* What the faults of the loop model's tools say: the input that cannot be
\* built, and the attribute the search wrapper reads
FaultTexts == { <<"ValidationError">>, <<"AttributeError: user_query">> }

\* C21: no fault of a tool goes through the AgentLoop: handling a decision that
\* names a registered tool never ends the session, and when building the input
\* or running the tool raises, the loop appends exactly one system entry
\* describing the error for that tool (behind it only the note about the step
\* bound, at the last step), makes no further planner call in that turn, and
\* waits for operator input.
C21_ToolFaultContained ==
    [][ RegisteredToolNamed =>
          /\ pc' # "Done"
          /\ ~RecordsToolOutput =>
               /\ \E e \in FaultTexts :
                    LeavesLoopWith(Message("system",
                        <<"Error running tool">> \o agent_output.tool_to_use.val
                           \o <<":">> \o e))
               /\ planner_log' = planner_log
               /\ turn' = turn
               /\ pc' = "AwaitingOperatorInput"
      ]_vars

C21_Witness ==
    /\ pc = "Planning"
    /\ turn = 2
    /\ \E i \in 1..Len(memory) :
         /\ memory[i] = Message("system", <<"Error running tool", "WebSearchTool", ":",
                                            "AttributeError: user_query">>)
         /\ memory[i + 1].role = "user"

---------------------------------------------------------------------------
(* Properties of the file tool, checked under ToolSpec                     *)

\* The text of the path holds the sequence '../'
ContainsDotDotSlash(path) ==
    \E i \in 1..(Len(path) - 2) : SubSeq(path, i, i + 2) = <<".", ".", Slash>>

\* C22 (as the claim states it): for every path that holds a '../' sequence or
\* begins as an absolute path, and for every action, the file tool returns a
\* failure result, action_performed false, and changes nothing in the
\* filesystem.
C22_TraversalTextFails ==
    (/\ FileRun
     /\ ContainsDotDotSlash(params.path) \/ isabs(params.path))
    => /\ tpc = "returned"
       /\ ret.kind = "returned"
       /\ ~ret.out.action_performed
       /\ fs = fs_at_call

\* C23: for every absolute path, one that points inside the root included, and
\* for every action, run returns the disallowed-path failure, action_performed
\* false, with no filesystem access, no approval prompt and no change of the
\* filesystem.
C23_AbsoluteAlwaysRejected ==
    (FileRun /\ isabs(params.path))
    => /\ tpc = "returned"
       /\ ret = Returned(FileManagerOutputSchema(DisallowedStatus(params.path), None, FALSE))
       /\ ~fs_accessed
       /\ ~prompted
       /\ fs = fs_at_call

C23_Witness ==
    /\ FileRun
    /\ tpc = "returned"
    /\ params.path = working_dir
    /\ InsideRoot(params.path)
    /\ isdir(fs, params.path)
    /\ params.action = "list"
    /\ ~ret.out.action_performed

---------------------------------------------------------------------------
(* Properties of the main prompt, checked under PromptSpec                 *)

\* The two texts are equal up to the case of their letters
SameLetters(a, b) ==
    Len(a) = Len(b) /\ \A i \in 1..Len(a) : LowerChar(a[i]) = LowerChar(b[i])

WhitespaceOnly(text) == \A i \in 1..Len(text) : text[i] = " "

\* C24: a line equal to 'exit' or 'quit' in any letter case ends the session
\* with no memory entry appended and no planner call; an empty line or a line
\* of blanks appends nothing to memory, makes no planner call and leads to a
\* new prompt.
C24_ConsoleTokens ==
    [][ (pc = "AwaitingOperatorInput" /\ operator_event'.kind = "typed") =>
            LET text == operator_event'.text
            IN /\ (SameLetters(text, <<"e", "x", "i", "t">>)
                    \/ SameLetters(text, <<"q", "u", "i", "t">>)) =>
                      /\ pc' = "Done"
                      /\ memory' = memory
                      /\ planner_log' = planner_log
               /\ WhitespaceOnly(text) =>
                      /\ pc' = "AwaitingOperatorInput"
                      /\ memory' = memory
                      /\ planner_log' = planner_log
                      /\ turn' = turn
      ]_vars

C24_Witness ==
    /\ pc = "Done"
    /\ operator_event = [kind |-> "typed", text |-> <<"E", "x", "i", "t">>]
    /\ turn = 1
    /\ Len(planner_log) = 1
    /\ Last(memory) = Message("assistant", <<"hi">>)

\* C25: a keyboard interrupt or end of input while the loop waits at the main
\* prompt, or a keyboard interrupt during a planner call, ends the session:
\* the step appends nothing to memory, runs no tool and calls no planner, and
\* once the session has ended nothing happens any more.
C25_CancellationEndsSession ==
    [][ /\ (operator_event'.kind = "interrupt" /\ operator_event.kind # "interrupt") =>
              /\ pc \in {"AwaitingOperatorInput", "Planning"}
              /\ pc' = "Done"
              /\ memory' = memory
              /\ planner_log' = planner_log
              /\ tool_runs' = tool_runs
        /\ pc = "Done" => UNCHANGED vars
      ]_vars

C25_Witness ==
    /\ pc = "Done"
    /\ operator_event.kind = "interrupt"
    /\ turn = 2
    /\ step_count = 1
    /\ Last(memory).role = "user"
    /\ Last(planner_log) = PlannerCall(2, 1, agent_input)

---------------------------------------------------------------------------
(* Conversation memory, checked under Spec                                 *)

\* C30: memory is append-only under the AgentLoop: every step leaves the
\* entries already there in place, in order and unchanged, and at most adds
\* entries at the end; a session never holds fewer entries than before.
C30_MemoryAppendOnly ==
    [][ /\ Len(memory') >= Len(memory)
        /\ SubSeq(memory', 1, Len(memory)) = memory
        /\ \A i \in (Len(memory) + 1)..Len(memory') :
             memory'[i].role \in {"user", "assistant", "system"}
      ]_vars

C30_Witness ==
    /\ turn = 2
    /\ pc = "AwaitingOperatorInput"
    /\ Len(memory) >= 6
    /\ memory[1].role = "user"
    /\ \E i, j, k \in 2..Len(memory) :
         /\ i < j /\ j < k
         /\ memory[i].role = "system"
         /\ memory[j].role = "user"
         /\ memory[k].role = "assistant"

\* C26: a read or a list, whatever its path and its outcome, returns without
\* an approval prompt and leaves the filesystem as it was when run began.
C26_ReadListNoApproval ==
    (FileRun /\ params.action \in {"read", "list"})
    => /\ tpc = "returned"
       /\ ret.kind = "returned"
       /\ ~prompted
       /\ answered = <<>>
       /\ fs = fs_at_call

C26_Witness ==
    /\ FileRun
    /\ tpc = "returned"
    /\ params.action = "read"
    /\ ret.out.action_performed
    /\ ret.out.content = Some(<<"d", "c">>)
    /\ writes = 1

\* The lines of a listing, as a set of names
RECURSIVE LinesOf(_, _)
LinesOf(text, cur) ==
    IF text = <<>> THEN (IF cur = <<>> THEN {} ELSE {cur})
    ELSE IF Head(text) = "\n" THEN {cur} \cup LinesOf(Tail(text), <<>>)
    ELSE LinesOf(Tail(text), Append(cur, Head(text)))

\* The names of what lies directly in a directory
NamesIn(dir) ==
    { SubSeq(q, Len(RStripSlash(dir)) + 2, Len(q)) :
        q \in { x \in DOMAIN fs : x # dir /\ dirname(x) = dir } }

\* C27: a list whose path passes the confinement check and leads to an existing
\* regular file succeeds with the entries of the directory that holds the file,
\* action_performed true; a list whose path leads to nothing that exists
\* returns an error, action_performed false and no content.
C27_ListOnFile ==
    (/\ FileRun
     /\ tpc = "returned"
     /\ params.action = "list"
     /\ resolve_path(params.path).some)
    => /\ isfile(fs, Resolution) =>
             /\ ret.out.action_performed
             /\ ret.out.content.some
             /\ LinesOf(ret.out.content.val, <<>>) = NamesIn(dirname(Resolution))
             /\ basename(Resolution) \in LinesOf(ret.out.content.val, <<>>)
             /\ StartsWith(ret.out.status, <<"Successfully listed contents of directory">>)
       /\ ~exists(fs, Resolution) =>
             /\ ~ret.out.action_performed
             /\ ret.out.content = None
             /\ ret.out.status =
                  <<"Error: Directory not found or is not a directory at">> \o params.path

C27_Witness ==
    /\ FileRun
    /\ tpc = "returned"
    /\ params.action = "list"
    /\ params.path = <<"w">>
    /\ isfile(fs, Resolution)
    /\ InsideRoot(Resolution)
    /\ ret.out.action_performed
    /\ ret.out.content = Some(<<"w">>)

\* The directories that exist now and did not exist at the start
CreatedDirs == { q \in DOMAIN fs \ DOMAIN InitialFs : fs[q].kind = "dir" }

\* C29 (as the claim states it): when the approval prompt of a write or an
\* append is open the directory that is to hold the target exists; every
\* directory the tool has created lies inside the root; and a request whose
\* path the confinement check rejects creates no directory.
C29_DirsOnlyInsideRoot ==
    /\ (FileRun /\ tpc = "file_confirm") => isdir(fs, dirname(Resolution))
    /\ \A q \in CreatedDirs : InsideRoot(q)
    /\ (FileRun /\ ~resolve_path(params.path).some) => fs = fs_at_call

---------------------------------------------------------------------------
(* Properties of repeated reads, checked under ReadSpec                    *)

---------------------------------------------------------------------------
(* Validation of the tool's input before the run, checked under Spec       *)

\* The decision being handled names a registered tool
RegisteredToolDecided ==
    /\ pc = "Handling"
    /\ Truthy(agent_output.tool_to_use)
    /\ agent_output.tool_to_use.val \in ToolNames

\* The parameters of the decision being handled give every field the named
\* tool's input schema requires; parameters that are missing are the empty
\* mapping
ParametersFit ==
    LET given == IF agent_output.tool_parameters.some
                 THEN DOMAIN agent_output.tool_parameters.val ELSE {}
    IN RequiredOf(agent_output.tool_to_use.val) \subseteq given

\* C31: a registered tool is run only with an input built from parameters that
\* fit its input schema; when the parameters do not fit, the tool is not run,
\* nothing of the tools' state changes (no prompt, no process, no file), one
\* system entry records the error (behind it at most the note about the step
\* bound), and the turn ends waiting for the operator, the session going on.
C31_ValidatedBeforeRun ==
    [][ /\ tool_runs' > tool_runs => RegisteredToolDecided /\ ParametersFit
        /\ (RegisteredToolDecided /\ ~ParametersFit) =>
             LET name == agent_output.tool_to_use.val
                 new == Appended(memory, memory')
             IN /\ tool_runs' = tool_runs
                /\ UNCHANGED toolVars
                /\ planner_log' = planner_log
                /\ pc' = "AwaitingOperatorInput"
                /\ SubSeq(memory', 1, Len(memory)) = memory
                /\ Len(new) >= 1
                /\ new[1].role = "system"
                /\ StartsWith(new[1].text, <<"Error running tool">> \o name)
                /\ \A i \in 2..Len(new) : new[i] = Message("system", MaxStepsText)
                /\ last_tool_result_str' = Some(new[1].text)
      ]_vars

C31_Witness ==
    /\ pc = "AwaitingOperatorInput"
    /\ tool_runs = 0
    /\ memory # <<>>
    /\ Last(memory) = Message("system", ToolErrorText(<<"HumanInTheLoopConsole">>,
                                                      <<"ValidationError">>))

---------------------------------------------------------------------------
(* Properties of DuckDuckGoSearchTool.run, checked under SearchSpec        *)

\* The positions of all_results whose address no earlier position carries
FirstOccurrences ==
    { i \in 1..Len(all_results) :
        \A j \in 1..(i - 1) : UrlOrHref(all_results[j]) # UrlOrHref(all_results[i]) }

\* C32: the returned list holds each distinct address of the collected results
\* at most once, and it is the list of the first occurrences of the addresses,
\* in the order of collection.
C32_DeduplicatedByAddress ==
    spc = "idle" =>
    /\ \A i, j \in 1..Len(search_output) :
         search_output[i].url = search_output[j].url => i = j
    /\ Len(search_output) = Cardinality(FirstOccurrences)
    /\ \A k \in 1..Len(search_output) :
         \E i \in FirstOccurrences :
            /\ Cardinality({ j \in FirstOccurrences : j <= i }) = k
            /\ search_output[k] = ResultItem(all_results[i])

---------------------------------------------------------------------------
(* Properties of the smol FileManager, checked under SmolSpec              *)

\* A call of the smol file tool is under way or has just ended
SmolRun == tpc \in {"smol_confirm", "returned"} /\ params.tool = "SmolFileManager"

\* C33: a call of the smol FileManager, whatever its action, whose path
\* (relative or absolute) resolves to neither the working directory nor a
\* descendant of it has returned the 'Invalid or disallowed path' error, with
\* no filesystem access, no change of the filesystem and no approval prompt.
C33_SmolPathConfinement ==
    (SmolRun /\ ~InsideRoot(Located(Resolution))) =>
        /\ tpc = "returned"
        /\ ret.kind = "returned"
        /\ StartsWith(ret.out, <<"Error: Invalid or disallowed path">> \o params.path)
        /\ ~fs_accessed
        /\ ~prompted
        /\ fs = fs_at_call

C33_Witness ==
    /\ SmolRun
    /\ params.action = "write"
    /\ params.content.some
    /\ params.path = Join(<<DotDot, <<"w", "x">>, <<"n">>>>)
    /\ ~InsideRoot(Located(Resolution))
    /\ tpc = "returned"

---------------------------------------------------------------------------
(* The note about the step bound, checked under Spec                       *)

\* C34: the note 'Reached max auto steps' is in memory only behind the record
\* of a tool's normal return, that is, only where the last step of the turn
\* dispatched a tool and the step bound stopped the loop; a turn that ends by
\* a response, a no-op decision, a planner failure, an unknown tool or a tool
\* error does not get the note.
C34_NoteOnlyAtStepBound ==
    (memory # <<>> /\ Last(memory) = Message("system", MaxStepsText)) =>
        /\ Len(memory) >= 2
        /\ memory[Len(memory) - 1].role = "system"
        /\ \E tool_name \in ToolNames :
              StartsWith(memory[Len(memory) - 1].text,
                         <<"Tool">> \o tool_name \o <<"output:">>)

---------------------------------------------------------------------------
(* Rejection results of the console tool, checked under ToolSpec           *)

\* C35: a returned run of the console tool whose result has executed false and
\* a text saying that the operator rejected or cancelled the command started
\* no process, a keyboard interrupt after the answer 'y' included.
C35_RejectionMeansNoProcess ==
    ( /\ tpc = "returned"
      /\ params.tool = "HumanInTheLoopConsole"
      /\ ret.kind = "returned"
      /\ ~ret.out.executed
      /\ \/ ret.out.result = InterruptedText
         \/ ret.out.result = EditCancelledText
         \/ StartsWith(ret.out.result, <<"User rejected the command execution. Reason:">>) )
    => spawned = <<>>

---------------------------------------------------------------------------
(* The shape of a turn in memory, checked under Spec                       *)

\* C36: a turn begins by appending the operator's text as a user entry, and no
\* other step appends a user entry; when the turn ends waiting for the operator
\* (it was not cut short by an interrupt), at least one entry follows the user
\* entry; the turn has one assistant entry when it ended by a response to the
\* user and none otherwise, and no step that is not the response appends an
\* assistant entry.
C36_TurnShape ==
    [][ LET new == Appended(memory, memory')
            u == LastUserIndex(memory', Len(memory'))
            byResponse == pc = "Handling" /\ ResponsePath(agent_output)
        IN /\ turn' # turn => new = <<Message("user", current_task')>>
           /\ turn' = turn => \A i \in 1..Len(new) : new[i].role # "user"
           /\ ~byResponse => \A i \in 1..Len(new) : new[i].role # "assistant"
           /\ (pc # "AwaitingOperatorInput" /\ pc' = "AwaitingOperatorInput") =>
                 /\ u >= 1
                 /\ memory'[u] = Message("user", current_task)
                 /\ Len(memory') > u
                 /\ Cardinality({ i \in u..Len(memory') : memory'[i].role = "assistant" })
                      = IF byResponse THEN 1 ELSE 0
      ]_vars

C36_Witness ==
    /\ pc = "AwaitingOperatorInput"
    /\ turn = 2
    /\ Len(memory) - LastUserIndex(memory, Len(memory)) >= 2
    /\ Last(memory).role = "assistant"

---------------------------------------------------------------------------
(* The budget of a turn, checked under BudgetSpec                          *)

\* C37: a turn makes at most MAX_AUTO_STEPS planner calls and at most as many
\* tool runs as planner calls; the call that opens a turn is step 1 of it with
\* no tool run counted, whatever the turn before used up; and, the planner and
\* the tools returning, every planner call leads to the wait for the operator
\* (or to the end of the session).
C37_TurnBudget ==
    /\ [](/\ step_count <= MAX_AUTO_STEPS
          /\ tool_runs <= step_count
          /\ turn >= 1 => Cardinality(TurnCalls) = step_count)
    /\ [][turn' # turn => (pc' = "Planning" /\ step_count' = 1 /\ tool_runs' = 0)]_vars
    /\ (pc = "Planning") ~> (pc \in {"AwaitingOperatorInput", "Done"})

\* The second turn has used its whole budget after the first one had
C37_Witness ==
    /\ pc = "AwaitingOperatorInput"
    /\ turn = 2
    /\ step_count = MAX_AUTO_STEPS
    /\ tool_runs = MAX_AUTO_STEPS
    /\ Cardinality({ i \in 1..Len(memory) : memory[i] = Message("system", MaxStepsText) }) = 2

---------------------------------------------------------------------------
(* Write, append and read, checked under ReadSpec                          *)

\* A read has returned, of the file the latest performed write or append went
\* to, with no write or append asked for since
ReadsBackWritten ==
    /\ tpc = "returned"
    /\ params.tool = "FileManager"
    /\ params.action = "read"
    /\ prev_write.some
    /\ resolve_path(params.path) = Some(prev_write.val.file)

---------------------------------------------------------------------------
(* Progress of the approval loops, checked under ApprovalSpec              *)

\* The answer just read at the approval prompt of the console tool is none of
\* 'y', 'n' and 'edit'
InvalidConsoleAnswer ==
    /\ tpc = "console_approval"
    /\ ~prompt_interrupted'
    /\ Strip(Lower(answered')) \notin {<<"y">>, <<"n">>, <<"e", "d", "i", "t">>}

\* The answer just read at the approval prompt of the file tool is neither
\* 'y' nor 'n'
InvalidFileAnswer ==
    /\ tpc = "file_confirm"
    /\ ~prompt_interrupted'
    /\ Strip(Lower(answered')) \notin {<<"y">>, <<"n">>}

\* C39: an answer other than 'y', 'n' (or 'edit' for the console tool) starts
\* no process, changes no file, leaves the proposed command or file operation
\* as it is and leaves the tool at the same prompt; and with an operator who
\* does not answer with invalid input or edits for ever, a run that is at a
\* prompt returns a result.
C39_ApprovalProgress ==
    /\ [][ (InvalidConsoleAnswer \/ InvalidFileAnswer) =>
              /\ tpc' = tpc
              /\ ret' = NoReturn
              /\ UNCHANGED <<spawned, fs, command, presented, params, last_edit>>
         ]_vars
    /\ (tpc \in {"console_approval", "console_reason", "console_edit", "file_confirm"})
          ~> (tpc = "returned" /\ ret.kind = "returned")

\* A run that returned after an invalid answer and an edit
C39_Witness ==
    /\ tpc = "returned"
    /\ params.tool = "HumanInTheLoopConsole"
    /\ last_edit.some
    /\ ret.kind = "returned"
    /\ ret.out.executed

---------------------------------------------------------------------------
(* Exceptions at the outer loop, checked under FaultSpec                   *)

\* C40: the session has ended only after the operator typed 'exit' or 'quit'
\* (in any letter case) or after an interrupt or the end of input; after any
\* other exception reached the outer loop, the loop waits for the operator's
\* next input with a system entry 'FATAL ERROR in main loop' as the latest of
\* memory; and no step takes an entry away from memory.
C40_OnlyOperatorEndsSession ==
    /\ [](pc = "Done" =>
            \/ operator_event.kind = "interrupt"
            \/ /\ operator_event.kind = "typed"
               /\ Lower(operator_event.text) \in {<<"e", "x", "i", "t">>, <<"q", "u", "i", "t">>})
    /\ [](operator_event.kind = "fault" =>
            /\ pc = "AwaitingOperatorInput"
            /\ memory # <<>>
            /\ Last(memory) = Message("system", <<"FATAL ERROR in main loop:">>
                                                  \o operator_event.text))
    /\ [][SubSeq(memory', 1, Len(memory)) = memory]_vars

\* A turn was begun after an exception had been recorded in the turn before
C40_Witness ==
    /\ pc = "Planning"
    /\ turn = 2
    /\ operator_event.kind = "typed"
    /\ Len(memory) >= 3
    /\ memory[Len(memory) - 1].role = "system"
    /\ StartsWith(memory[Len(memory) - 1].text, <<"FATAL ERROR in main loop:">>)
    /\ Last(memory).role = "user"

====
